---- MODULE Spec2Model ----
(***************************************************************************)
(* Verification model of qishenonly/logger:                                *)
(*   - the batching adapters (adapters/kafka.go: KafkaAdapter and          *)
(*     ElasticsearchAdapter), their buffer, buffer lock and periodic       *)
(*     flush task;                                                         *)
(*   - the daily rotating file writer (DailyRotateWriter);                 *)
(*   - the ZapLogger adapter dispatch (sendToAdapters, Close, AddAdapter,  *)
(*     RemoveAdapter).                                                     *)
(* Each component has its own next-state relation and specification; the   *)
(* variables of the other components stay unchanged under it.              *)
(***************************************************************************)
EXTENDS Integers, Sequences, FiniteSets, TLC

(***************************************************************************)
(* Bounds of the model.                                                    *)
(***************************************************************************)
\* largest positive batch size a configuration may ask for
MaxBatch == 3
\* number of log calls on the logger with its adapters
MaxSysLogs == 2
\* number of flushPeriodically goroutines of one adapter
MaxTasks == 2
\* number of loggers the package-level functions construct
MaxLoggers == 3
\* number of adapter configurations in a Config
MaxCfgAdapters == 2
\* number of RegisterAdapter calls
MaxRegs == 2
\* number of GetAdapter calls
MaxGets == 2
\* number of Process calls (distinct entries) fed to one adapter
MaxEntries == 5
\* number of dates of the Calendar the wall clock runs through
MaxDay == 4
\* number of Write calls (distinct payloads) made on one writer
MaxWrites == 3
\* number of log calls made on one logger
MaxLogs == 2
\* longest adapter list AddAdapter builds
MaxAdapters == 2

(***************************************************************************)
(* Program constants.                                                      *)
(***************************************************************************)
KafkaDefaultBatchSize == 100
KafkaDefaultFlushTimeout == 5
EsDefaultBulkSize == 200
EsDefaultFlushInterval == 10

(***************************************************************************)
(* ADAPTER: state of one batching adapter instance.                        *)
(***************************************************************************)
VARIABLES
    aState,       \* "new" (constructed), "ready" (Init returned nil),
                  \* "panicked" (Init panicked)
    BatchSize,    \* KafkaAdapter.BatchSize / ElasticsearchAdapter.BulkSize
    FlushTimeout, \* FlushTimeout / FlushInterval, in whole seconds
    tickerState,  \* periodic task: "none", "starting", "running", "panicked"
    ptasks,       \* number of flushPeriodically goroutines Init has started
    buffer,       \* a.buffer: sequence of entry ids
    bufferMu,     \* holder of a.bufferMu, or "free"
    apc,          \* position of each thread inside its adapter call
    aop,          \* the adapter call each thread is executing
    cur,          \* the entry argument of the thread's Process call
    ret,          \* error result of the thread's flushBuffer ("none" = not run)
    nextId,       \* id of the next entry handed to Process
    sent,         \* destination: sequence of batches [entries, by]
    accepted,     \* history: entries appended by Process, in append order
    snap,         \* history: buffer and number of batches at lock acquisition
    flushOps      \* history: has any Flush / periodic flush / Close run

avars == <<aState, BatchSize, FlushTimeout, tickerState, ptasks, buffer, bufferMu,
           apc, aop, cur, ret, nextId, sent, accepted, snap, flushOps>>

(***************************************************************************)
(* SINK: state of one DailyRotateWriter, its clock and its directory.      *)
(***************************************************************************)
VARIABLES
    clock,        \* wall clock: index of today's date in Calendar
    currentDate,  \* w.currentDate, a "2006-01-02" string
    file,         \* w.file: nil, or a handle [path, open]
    mutex,        \* holder of w.mutex, or "free"
    dirs,         \* month directories that exist under logPath
    fs,           \* files under logPath: path -> sequence of payloads
    spc,          \* position of each thread inside its writer call
    sop,          \* the writer call each thread is executing
    today,        \* Write's local variable today
    payload,      \* the bytes p of the thread's Write call
    wret,         \* error result of the thread's call ("none" = not set)
    nextPayload,  \* id of the next payload handed to Write
    expected,     \* history: per date, the payloads written while it was current
    clean,        \* history: no I/O failure, no Close and no date change
                  \* inside a Write so far
    wdays,        \* history: the days on which a Write read the clock
    handles       \* the paths of the file handles the process holds open

svars == <<clock, currentDate, file, mutex, dirs, fs, spc, sop, today, payload,
           wret, nextPayload, expected, clean, wdays, handles>>

(***************************************************************************)
(* LOGGER: state of one ZapLogger and of the dispatch tasks it starts.     *)
(***************************************************************************)
VARIABLES
    level,        \* the zap level the cores were built with
    adapters,     \* l.adapters: sequence of adapter instances
    readers,      \* threads holding l.adapterMu for reading
    writer,       \* thread holding l.adapterMu for writing, or "none"
    lpc,          \* position of each thread inside its logger call
    lop,          \* the logger call each thread is executing
    larg,         \* the call's argument: [id, lvl], an adapter, or a name
    idx,          \* Close: index of the adapter the range loop is at
    tasks,        \* dispatch goroutines: (log id, position) -> [a, st]
    zapOut,       \* ids of the entries the zap cores (console, file) wrote
    nextLog,      \* id of the next log call
    closeLog      \* Close: the adapter calls that have returned, in order

lvars == <<level, adapters, readers, writer, lpc, lop, larg, idx, tasks, zapOut,
           nextLog, closeLog>>

(***************************************************************************)
(* REGISTRY: the package-level map of adapter constructors.                *)
(***************************************************************************)
VARIABLES
    adapterRegistry, \* name -> constructor, "none" where the map has no key
    nextInst,        \* number the next allocated adapter instance gets
    regs,            \* history: the RegisterAdapter calls, in order
    returned         \* history: what each GetAdapter call returned

rvars == <<adapterRegistry, nextInst, regs, returned>>

(***************************************************************************)
(* FACTORY: the default logger and the package-level functions.            *)
(***************************************************************************)
VARIABLES
    defaultLogger,   \* the interface variable: a type word and a data word
    loggerMu,        \* the goroutine that holds the mutex, or "none"
    nextLogger,      \* number the next constructed logger gets
    fpc,             \* per goroutine: where it is in Init or Default
    fop,             \* per goroutine: the package-level function it called
    flocal,          \* per goroutine: logger, err of its NewZapLogger call
    fpend,           \* per goroutine: words of defaultLogger it still stores
    fread,           \* per goroutine: words of defaultLogger it has loaded
    fret,            \* per goroutine: what its last call returned
    fcfg             \* per goroutine: the Config of the call it is in

fvars == <<defaultLogger, loggerMu, nextLogger, fpc, fop, flocal, fpend, fread,
           fret, fcfg>>

(***************************************************************************)
(* FIELDS: the configuration an adapter's Init was given and the fields    *)
(* of the adapter after it.                                                *)
(***************************************************************************)
VARIABLES
    given,           \* the config map passed to Init
    fields           \* the adapter's exported fields and how Init ended

cvars == <<given, fields>>

(***************************************************************************)
(* SYSTEM: one ZapLogger together with its batching adapters: the two      *)
(* lock levels, the dispatch goroutines and the periodic flush tasks.      *)
(***************************************************************************)
VARIABLES
    sysAdapters,     \* l.adapters: sequence of adapter instances
    sysMu,           \* l.adapterMu: the readers and the writer
    sysBufMu,        \* per adapter: the holder of a.bufferMu
    sysBuf,          \* per adapter: a.buffer, a sequence of log call ids
    sysPc,           \* position of the log caller, the admin and the tickers
    sysOp,           \* the call the admin is executing
    sysIdx,          \* Close: position of its loop over l.adapters
    sysTasks,        \* per log call and adapter: the dispatch goroutine
    sysNext,         \* id of the next log call
    sysClosed        \* history: per adapter, a ZapLogger.Close that closed it returned

yvars == <<sysAdapters, sysMu, sysBufMu, sysBuf, sysPc, sysOp, sysIdx, sysTasks,
           sysNext, sysClosed>>

\* what the actions of one component leave alone
OtherThanAdapter == <<svars, lvars, rvars, fvars, cvars, yvars>>
OtherThanSink == <<avars, lvars, rvars, fvars, cvars, yvars>>
OtherThanLogger == <<avars, svars, rvars, fvars, cvars, yvars>>
OtherThanRegistry == <<avars, svars, lvars, fvars, cvars, yvars>>
OtherThanFactory == <<avars, svars, lvars, rvars, cvars, yvars>>
OtherThanFields == <<avars, svars, lvars, rvars, fvars, yvars>>
OtherThanSystem == <<avars, svars, lvars, rvars, fvars, cvars>>

Producers == {"p1", "p2"}
Caller == "caller"
Ticker == "ticker"
AThreads == Producers \cup {Caller, Ticker}

NoSnap == [buf |-> <<>>, nsent |-> 0]

(***************************************************************************)
(* Configuration options.  A float64 option is represented by the number   *)
(* of halves it holds (halves = 3 is 1.5), so that fractional, zero and    *)
(* negative values and Go's truncating conversions are modelled.           *)
(***************************************************************************)
\* the two batching adapter types; they differ in their defaults only
AdapterKinds == {"kafka", "elasticsearch"}

Missing == [k |-> "missing", halves |-> 0]
WrongType == [k |-> "wrong", halves |-> 0]
Float(h) == [k |-> "float", halves |-> h]

BatchOptions == {Missing, WrongType, Float(-2), Float(1)}
                    \cup {Float(2 * b) : b \in 1..MaxBatch}
TimeoutOptions == {Missing, WrongType, Float(1), Float(10)}

\* Go's int(f) / time.Duration(f) of a float64: truncation toward zero
TruncToInt(h) == IF h >= 0 THEN h \div 2 ELSE -((-h) \div 2)

\* config["batch_size"].(float64) / config["bulk_size"].(float64)
ParseBatchSize(k, opt) ==
    IF opt.k = "float" THEN TruncToInt(opt.halves)
    ELSE IF k = "kafka" THEN KafkaDefaultBatchSize ELSE EsDefaultBulkSize

\* config["flush_timeout"].(float64) / config["flush_interval"].(float64)
ParseFlushTimeout(k, opt) ==
    IF opt.k = "float" THEN TruncToInt(opt.halves)
    ELSE IF k = "kafka" THEN KafkaDefaultFlushTimeout ELSE EsDefaultFlushInterval

\* make([]LogEntry, 0, n) panics for a negative capacity
MakeSlicePanics(n) == n < 0

\* time.NewTicker(d) panics for a non-positive interval
NewTickerPanics(d) == d <= 0

\* the whole process is gone once any goroutine has panicked
AdapterAlive == aState # "panicked" /\ tickerState # "panicked"

(***************************************************************************)
(* Init(config): parse the options, allocate the buffer, start the         *)
(* periodic flush task.                                                    *)
(***************************************************************************)
AdapterInit ==
    /\ aState = "new"
    /\ \E k \in AdapterKinds, bo \in BatchOptions, to \in TimeoutOptions :
         LET bs == ParseBatchSize(k, bo)
             ft == ParseFlushTimeout(k, to)
         IN  /\ BatchSize' = bs
             /\ FlushTimeout' = ft
             /\ IF MakeSlicePanics(bs)
                  THEN /\ aState' = "panicked"
                       /\ tickerState' = tickerState
                       /\ ptasks' = ptasks
                  ELSE /\ aState' = "ready"
                       /\ tickerState' = "starting"
                       /\ ptasks' = ptasks + 1
    /\ buffer' = <<>>
    /\ UNCHANGED <<OtherThanAdapter, bufferMu, apc, aop, cur, ret, nextId, sent, accepted,
                   snap, flushOps>>

\* Init(config) called again on an adapter that is initialised and at rest:
\* the options are parsed again, a new buffer replaces the old one, and one
\* more flushPeriodically goroutine is started
AdapterReinit ==
    /\ AdapterAlive
    /\ aState = "ready"
    /\ tickerState = "running"
    /\ ptasks < MaxTasks
    /\ bufferMu = "free"
    /\ \A t \in AThreads : apc[t] = "idle"
    /\ \E k \in AdapterKinds, bo \in BatchOptions, to \in TimeoutOptions :
         LET bs == ParseBatchSize(k, bo)
             ft == ParseFlushTimeout(k, to)
         IN  /\ BatchSize' = bs
             /\ FlushTimeout' = ft
             /\ IF MakeSlicePanics(bs)
                  THEN /\ aState' = "panicked"
                       /\ tickerState' = tickerState
                       /\ ptasks' = ptasks
                  ELSE /\ aState' = "ready"
                       /\ tickerState' = "starting"
                       /\ ptasks' = ptasks + 1
    /\ buffer' = <<>>
    /\ UNCHANGED <<OtherThanAdapter, bufferMu, apc, aop, cur, ret, nextId, sent, accepted,
                   snap, flushOps>>

\* flushPeriodically: ticker := time.NewTicker(a.FlushTimeout)
TickerStart ==
    /\ AdapterAlive
    /\ tickerState = "starting"
    /\ tickerState' = IF NewTickerPanics(FlushTimeout) THEN "panicked" ELSE "running"
    /\ UNCHANGED <<OtherThanAdapter, aState, BatchSize, FlushTimeout, ptasks, buffer, bufferMu, apc,
                   aop, cur, ret, nextId, sent, accepted, snap, flushOps>>

(***************************************************************************)
(* The buffer lock and the calls that take it.                             *)
(***************************************************************************)
\* mutant: the lock is not taken, callers enter the critical section at will
CanLock_Unguarded(mu) == TRUE

\* a.bufferMu.Lock() succeeds only when nobody holds the mutex
CanLock(mu) == mu = "free"

\* mutant: Close returns without its final flush
EntryPc_CloseSkipsFlush(op) ==
    IF op = "process" THEN "append" ELSE IF op = "close" THEN "unlock" ELSE "flush"

\* first position after the lock is taken: Process appends, Flush (also from
\* the periodic task and from Close) goes straight to flushBuffer
EntryPc(op) == IF op = "process" THEN "append" ELSE "flush"

\* mutant: the threshold test is off by one (>)
ReachedBatch_Strict(len, b) == len > b

\* if len(a.buffer) >= a.BatchSize
ReachedBatch(len, b) == len >= b

\* mutant: flushBuffer without its emptiness test
NothingToFlush_Unchecked(buf) == FALSE

\* flushBuffer: if len(a.buffer) == 0 { return nil }
NothingToFlush(buf) == Len(buf) = 0

\* mutant: flushBuffer forgets to empty the buffer
Truncated_Keeps(buf) == buf

\* a.buffer = a.buffer[:0]
Truncated(buf) == SubSeq(buf, 1, 0)

\* mutant: the periodic task never receives a tick
TickerDelivers_Never(st) == FALSE

\* for range ticker.C: the running ticker keeps delivering ticks
TickerDelivers(st) == st = "running"

Lock(t, op) ==
    /\ AdapterAlive
    /\ aState = "ready"
    /\ apc[t] = "idle"
    /\ CanLock(bufferMu)
    /\ bufferMu' = t
    /\ aop' = [aop EXCEPT ![t] = op]
    /\ apc' = [apc EXCEPT ![t] = EntryPc(op)]
    /\ ret' = [ret EXCEPT ![t] = "none"]
    /\ snap' = [snap EXCEPT ![t] = [buf |-> buffer, nsent |-> Len(sent)]]

\* Process(ctx, entry): a.bufferMu.Lock()
ProcessLock(t) ==
    /\ t \in Producers
    /\ nextId <= MaxEntries
    /\ Lock(t, "process")
    /\ cur' = [cur EXCEPT ![t] = nextId]
    /\ nextId' = nextId + 1
    /\ UNCHANGED <<OtherThanAdapter, aState, BatchSize, FlushTimeout, tickerState, ptasks, buffer,
                   sent, accepted, flushOps>>

\* Process: a.buffer = append(a.buffer, entry); threshold test
ProcessAppend(t) ==
    /\ AdapterAlive
    /\ apc[t] = "append"
    /\ buffer' = Append(buffer, cur[t])
    /\ accepted' = Append(accepted, cur[t])
    /\ apc' = [apc EXCEPT ![t] =
                 IF ReachedBatch(Len(buffer'), BatchSize) THEN "flush" ELSE "unlock"]
    /\ UNCHANGED <<OtherThanAdapter, aState, BatchSize, FlushTimeout, tickerState, ptasks, bufferMu,
                   aop, cur, ret, nextId, sent, snap, flushOps>>

\* Flush(): a.bufferMu.Lock(), called by a user of the adapter
FlushLock(t) ==
    /\ t = Caller
    /\ Lock(t, "flush")
    /\ flushOps' = TRUE
    /\ UNCHANGED <<OtherThanAdapter, aState, BatchSize, FlushTimeout, tickerState, ptasks, buffer,
                   cur, nextId, sent, accepted>>

\* Close(): err := a.Flush()
CloseLock(t) ==
    /\ t = Caller
    /\ Lock(t, "close")
    /\ flushOps' = TRUE
    /\ UNCHANGED <<OtherThanAdapter, aState, BatchSize, FlushTimeout, tickerState, ptasks, buffer,
                   cur, nextId, sent, accepted>>

\* flushPeriodically: for range ticker.C { _ = a.Flush() }
TickLock(t) ==
    /\ t = Ticker
    /\ TickerDelivers(tickerState)
    /\ Lock(t, "tick")
    /\ flushOps' = TRUE
    /\ UNCHANGED <<OtherThanAdapter, aState, BatchSize, FlushTimeout, tickerState, ptasks, buffer,
                   cur, nextId, sent, accepted>>

\* flushBuffer: the emptiness test, then the send of the whole buffer
FlushBufferSend(t) ==
    /\ AdapterAlive
    /\ apc[t] = "flush"
    /\ IF NothingToFlush(buffer)
         THEN /\ sent' = sent
              /\ ret' = [ret EXCEPT ![t] = "nil"]
              /\ apc' = [apc EXCEPT ![t] = "unlock"]
         ELSE /\ sent' = Append(sent, [entries |-> buffer, by |-> aop[t]])
              /\ ret' = ret
              /\ apc' = [apc EXCEPT ![t] = "clear"]
    /\ UNCHANGED <<OtherThanAdapter, aState, BatchSize, FlushTimeout, tickerState, ptasks, buffer,
                   bufferMu, aop, cur, nextId, accepted, snap, flushOps>>

\* flushBuffer: a.buffer = a.buffer[:0]; return nil
FlushBufferClear(t) ==
    /\ AdapterAlive
    /\ apc[t] = "clear"
    /\ buffer' = Truncated(buffer)
    /\ ret' = [ret EXCEPT ![t] = "nil"]
    /\ apc' = [apc EXCEPT ![t] = "unlock"]
    /\ UNCHANGED <<OtherThanAdapter, aState, BatchSize, FlushTimeout, tickerState, ptasks, bufferMu,
                   aop, cur, nextId, sent, accepted, snap, flushOps>>

\* defer a.bufferMu.Unlock(); the call returns
Unlock(t) ==
    /\ AdapterAlive
    /\ apc[t] = "unlock"
    /\ bufferMu' = "free"
    /\ apc' = [apc EXCEPT ![t] = "idle"]
    /\ aop' = [aop EXCEPT ![t] = "none"]
    /\ cur' = [cur EXCEPT ![t] = 0]
    /\ ret' = [ret EXCEPT ![t] = "none"]
    /\ snap' = [snap EXCEPT ![t] = NoSnap]
    /\ UNCHANGED <<OtherThanAdapter, aState, BatchSize, FlushTimeout, tickerState, ptasks, buffer,
                   nextId, sent, accepted, flushOps>>

AdapterInitState ==
    /\ aState = "new"
    /\ BatchSize = 0
    /\ FlushTimeout = 0
    /\ tickerState = "none"
    /\ ptasks = 0
    /\ buffer = <<>>
    /\ bufferMu = "free"
    /\ apc = [t \in AThreads |-> "idle"]
    /\ aop = [t \in AThreads |-> "none"]
    /\ cur = [t \in AThreads |-> 0]
    /\ ret = [t \in AThreads |-> "none"]
    /\ nextId = 1
    /\ sent = <<>>
    /\ accepted = <<>>
    /\ snap = [t \in AThreads |-> NoSnap]
    /\ flushOps = FALSE

\* the calls made on an initialised adapter
AdapterRun ==
    \E t \in AThreads :
        \/ ProcessLock(t)
        \/ ProcessAppend(t)
        \/ FlushLock(t)
        \/ CloseLock(t)
        \/ TickLock(t)
        \/ FlushBufferSend(t)
        \/ FlushBufferClear(t)
        \/ Unlock(t)

AdapterNext ==
    \/ AdapterInit
    \/ TickerStart
    \/ AdapterRun

\* the adapter with Init called on it again between the other calls
LifecycleNext ==
    \/ AdapterInit
    \/ AdapterReinit
    \/ TickerStart
    \/ AdapterRun


(***************************************************************************)
(* SINK: the daily rotating, monthly archiving writer (DailyRotateWriter). *)
(***************************************************************************)
Writers == {"w1", "w2"}

\* Dates the wall clock passes through, in order: a day change, a month
\* change and a year change, with equal days and months in different years.
Calendar == << [y |-> 2023, m |-> 3, d |-> 15],
               [y |-> 2023, m |-> 3, d |-> 16],
               [y |-> 2023, m |-> 4, d |-> 15],
               [y |-> 2024, m |-> 3, d |-> 15],
               [y |-> 2024, m |-> 4, d |-> 15],
               [y |-> 2025, m |-> 3, d |-> 16] >>

\* mutant: the date is taken a day ahead of the wall clock
Now_Ahead == Calendar[IF clock < Len(Calendar) THEN clock + 1 ELSE clock]

\* time.Now()
Now == Calendar[clock]

\* now.Format("2006-01-02")
FormatDate(dt) == <<dt.y, dt.m, dt.d>>

\* mutant: the month directory leaves out the year ("01")
MonthDir_NoYear(dt) == <<dt.m>>

\* now.Format("2006-01")
MonthDir(dt) == <<dt.y, dt.m>>

\* now.Format("01-02.log")
DayFile(dt) == <<dt.m, dt.d, "log">>

\* filepath.Join(filepath.Join(w.logPath, monthDir), dayFile)
LogFileName(dt) == <<MonthDir(dt), DayFile(dt)>>

NoFile == [nil |-> TRUE, path |-> <<>>, open |-> FALSE]
Handle(p) == [nil |-> FALSE, path |-> p, open |-> TRUE]

NoDate == <<>>
NoFiles == [p \in {} |-> <<>>]

\* os.OpenFile(name, O_CREATE|O_APPEND|O_WRONLY): creates the file if absent
Created(files, p) ==
    [q \in (DOMAIN files) \cup {p} |-> IF q \in DOMAIN files THEN files[q] ELSE <<>>]

\* file.Write(p) through an O_APPEND handle
Appended(files, p, bytes) == [files EXCEPT ![p] = Append(@, bytes)]

\* rotateFile, first half: if w.file != nil, close it; a handle whose Close
\* returned an error stays in w.file, closed
CloseOld(f, closeOk) ==
    IF f.nil THEN [file |-> f, err |-> "nil"]
    ELSE IF closeOk /\ f.open THEN [file |-> NoFile, err |-> "nil"]
    ELSE [file |-> [f EXCEPT !.open = FALSE], err |-> "err"]

\* rotateFile, second half: set currentDate, create the month directory,
\* open the day's file, bind it
OpenNew(ds, files, now, mkdirOk, openOk) ==
    IF ~mkdirOk
      THEN [file |-> NoFile, currentDate |-> FormatDate(now),
            dirs |-> ds, fs |-> files, err |-> "err"]
    ELSE IF ~openOk
      THEN [file |-> NoFile, currentDate |-> FormatDate(now),
            dirs |-> ds \cup {MonthDir(now)}, fs |-> files, err |-> "err"]
    ELSE [file |-> Handle(LogFileName(now)), currentDate |-> FormatDate(now),
          dirs |-> ds \cup {MonthDir(now)},
          fs |-> Created(files, LogFileName(now)), err |-> "nil"]

\* rotateFile(): close the old handle, set currentDate, create the month
\* directory, open the day's file.  The I/O outcomes are inputs.
RotateFile(f, cd, ds, files, now, closeOk, mkdirOk, openOk) ==
    IF CloseOld(f, closeOk).err # "nil"
      THEN [file |-> CloseOld(f, closeOk).file, currentDate |-> cd,
            dirs |-> ds, fs |-> files, err |-> "err"]
      ELSE OpenNew(ds, files, now, mkdirOk, openOk)

\* mutant: the handle stays open in the process after Close
AfterClose_Leaks(hs, f) == hs

\* the open handles after f.Close(): f is not among them, whatever Close
\* returned
AfterClose(hs, f) == IF f.nil THEN hs ELSE hs \ {f.path}

\* mutant: the mutex does not exclude, callers enter at will
MutexFree_Unguarded(mu) == TRUE

\* w.mutex.Lock() succeeds only when nobody holds the mutex
MutexFree(mu) == mu = "free"

SinkLock(t, op, first) ==
    /\ spc[t] = "idle"
    /\ MutexFree(mutex)
    /\ mutex' = t
    /\ sop' = [sop EXCEPT ![t] = op]
    /\ spc' = [spc EXCEPT ![t] = first]
    /\ wret' = [wret EXCEPT ![t] = "none"]

\* Write(p): w.mutex.Lock()
WriteLock(t) ==
    /\ nextPayload <= MaxWrites
    /\ SinkLock(t, "write", "check")
    /\ payload' = [payload EXCEPT ![t] = nextPayload]
    /\ nextPayload' = nextPayload + 1
    /\ UNCHANGED <<OtherThanSink, wdays, handles, clock, currentDate, file, dirs, fs, today, expected, clean>>

\* Write: today := time.Now().Format("2006-01-02"); if today != w.currentDate
WriteCheck(t) ==
    /\ spc[t] = "check"
    /\ today' = [today EXCEPT ![t] = FormatDate(Now)]
    /\ spc' = [spc EXCEPT ![t] =
                 IF FormatDate(Now) # currentDate THEN "rotate" ELSE "append"]
    /\ wdays' = wdays \cup {clock}
    /\ UNCHANGED <<OtherThanSink, handles, clock, currentDate, file, mutex, dirs, fs, sop,
                   payload, wret, nextPayload, expected, clean>>

\* Write: w.rotateFile(), the close of the old handle
WriteRotate(t) ==
    /\ spc[t] = "rotate"
    /\ \E closeOk \in BOOLEAN :
         LET r == CloseOld(file, closeOk)
         IN  /\ file' = r.file
             /\ handles' = AfterClose(handles, file)
             /\ IF r.err = "nil"
                  THEN /\ spc' = [spc EXCEPT ![t] = "open"]
                       /\ wret' = wret
                       /\ clean' = clean
                  ELSE /\ spc' = [spc EXCEPT ![t] = "unlock"]
                       /\ wret' = [wret EXCEPT ![t] = "err"]
                       /\ clean' = FALSE
    /\ UNCHANGED <<OtherThanSink, wdays, clock, currentDate, mutex, dirs, fs, sop, today,
                   payload, nextPayload, expected>>

\* Write: w.rotateFile(), from now := time.Now() on; an error of rotateFile
\* is returned by Write
WriteOpen(t) ==
    /\ spc[t] = "open"
    /\ \E mkdirOk \in BOOLEAN, openOk \in BOOLEAN :
         LET r == OpenNew(dirs, fs, Now, mkdirOk, openOk)
         IN  /\ file' = r.file
             /\ currentDate' = r.currentDate
             /\ dirs' = r.dirs
             /\ fs' = r.fs
             /\ handles' = IF r.err = "nil" THEN handles \cup {r.file.path} ELSE handles
             /\ IF r.err = "nil"
                  THEN /\ spc' = [spc EXCEPT ![t] = "append"]
                       /\ wret' = wret
                       /\ clean' = clean
                  ELSE /\ spc' = [spc EXCEPT ![t] = "unlock"]
                       /\ wret' = [wret EXCEPT ![t] = "err"]
                       /\ clean' = FALSE
    /\ wdays' = wdays \cup {clock}
    /\ UNCHANGED <<OtherThanSink, clock, mutex, sop, today, payload, nextPayload, expected>>

\* Write: return w.file.Write(p)
WriteAppend(t) ==
    /\ spc[t] = "append"
    /\ \E writeOk \in BOOLEAN :
         IF ~file.nil /\ file.open /\ writeOk
           THEN /\ fs' = Appended(fs, file.path, payload[t])
                /\ expected' = [expected EXCEPT ![clock] = Append(@, payload[t])]
                /\ wret' = [wret EXCEPT ![t] = "nil"]
                /\ clean' = clean
           ELSE \* nil handle (ErrInvalid), closed handle (ErrClosed), I/O error
                /\ fs' = fs
                /\ expected' = expected
                /\ wret' = [wret EXCEPT ![t] = "err"]
                /\ clean' = FALSE
    /\ spc' = [spc EXCEPT ![t] = "unlock"]
    /\ UNCHANGED <<OtherThanSink, wdays, handles, clock, currentDate, file, mutex, dirs, sop, today, payload,
                   nextPayload>>

\* Sync(): w.mutex.Lock()
SyncLock(t) ==
    /\ SinkLock(t, "sync", "sync")
    /\ UNCHANGED <<OtherThanSink, wdays, handles, clock, currentDate, file, dirs, fs, today, payload,
                   nextPayload, expected, clean>>

\* Sync: if w.file != nil { return w.file.Sync() }; return nil
SyncFile(t) ==
    /\ spc[t] = "sync"
    /\ \E syncOk \in BOOLEAN :
         IF file.nil
           THEN /\ wret' = [wret EXCEPT ![t] = "nil"]
                /\ clean' = clean
           ELSE IF file.open /\ syncOk
             THEN /\ wret' = [wret EXCEPT ![t] = "nil"]
                  /\ clean' = clean
             ELSE /\ wret' = [wret EXCEPT ![t] = "err"]
                  /\ clean' = FALSE
    /\ spc' = [spc EXCEPT ![t] = "unlock"]
    /\ UNCHANGED <<OtherThanSink, wdays, handles, clock, currentDate, file, mutex, dirs, fs, sop, today, payload,
                   nextPayload, expected>>

\* Close(): w.mutex.Lock()
SinkCloseLock(t) ==
    /\ SinkLock(t, "close", "close")
    /\ UNCHANGED <<OtherThanSink, wdays, handles, clock, currentDate, file, dirs, fs, today, payload,
                   nextPayload, expected, clean>>

\* Close: if w.file != nil { err := w.file.Close(); w.file = nil; return err }
SinkCloseFile(t) ==
    /\ spc[t] = "close"
    /\ \E closeOk \in BOOLEAN :
         wret' = [wret EXCEPT ![t] =
                    IF file.nil \/ (file.open /\ closeOk) THEN "nil" ELSE "err"]
    /\ file' = NoFile
    /\ handles' = AfterClose(handles, file)
    /\ clean' = FALSE
    /\ spc' = [spc EXCEPT ![t] = "unlock"]
    /\ UNCHANGED <<OtherThanSink, wdays, clock, currentDate, mutex, dirs, fs, sop, today, payload,
                   nextPayload, expected>>

\* defer w.mutex.Unlock(); the call returns
SinkUnlock(t) ==
    /\ spc[t] = "unlock"
    /\ mutex' = "free"
    /\ spc' = [spc EXCEPT ![t] = "idle"]
    /\ sop' = [sop EXCEPT ![t] = "none"]
    /\ today' = [today EXCEPT ![t] = NoDate]
    /\ payload' = [payload EXCEPT ![t] = 0]
    /\ wret' = [wret EXCEPT ![t] = "none"]
    /\ UNCHANGED <<OtherThanSink, wdays, handles, clock, currentDate, file, dirs, fs, nextPayload, expected, clean>>

\* the wall clock reaches a later date; a change that falls between a
\* Write's date test and its append is recorded in the history
DateChange ==
    /\ clock < MaxDay
    /\ \E c \in (clock + 1)..MaxDay : clock' = c
    /\ clean' = (clean /\ \A t \in Writers : spc[t] \notin {"rotate", "open", "append"})
    /\ UNCHANGED <<OtherThanSink, wdays, handles, currentDate, file, mutex, dirs, fs, spc, sop, today, payload,
                   wret, nextPayload, expected>>

\* NewDailyRotateWriter(logPath) on the first date, all I/O succeeding
SinkInitState ==
    LET r == RotateFile(NoFile, NoDate, {}, NoFiles, Calendar[1], TRUE, TRUE, TRUE)
    IN  /\ clock = 1
        /\ currentDate = r.currentDate
        /\ file = r.file
        /\ dirs = r.dirs
        /\ fs = r.fs
        /\ mutex = "free"
        /\ spc = [t \in Writers |-> "idle"]
        /\ sop = [t \in Writers |-> "none"]
        /\ today = [t \in Writers |-> NoDate]
        /\ payload = [t \in Writers |-> 0]
        /\ wret = [t \in Writers |-> "none"]
        /\ nextPayload = 1
        /\ expected = [i \in 1..Len(Calendar) |-> <<>>]
        /\ clean = TRUE
        /\ wdays = {}
        /\ handles = {r.file.path}

SinkNext ==
    \/ DateChange
    \/ \E t \in Writers :
         \/ WriteLock(t)
         \/ WriteCheck(t)
         \/ WriteRotate(t)
         \/ WriteOpen(t)
         \/ WriteAppend(t)
         \/ SyncLock(t)
         \/ SyncFile(t)
         \/ SinkCloseLock(t)
         \/ SinkCloseFile(t)
         \/ SinkUnlock(t)

(***************************************************************************)
(* LOGGER: NewZapLogger's level, sendToAdapters, Close, AddAdapter and     *)
(* RemoveAdapter of ZapLogger.  An adapter is opaque here: a call into it  *)
(* returns nil, returns an error, or does not return.                      *)
(***************************************************************************)
LogCallers == {"c1"}
Admins == {"m1"}
LThreads == LogCallers \cup Admins

\* adapter instances and their Name()
AdapterInsts == {"k1", "k2", "e1"}
Name(a) == IF a = "e1" THEN "elasticsearch" ELSE "kafka"
AdapterNames == {Name(a) : a \in AdapterInsts}

\* zapcore levels, by severity
LevelNum(l) ==
    CASE l = "debug" -> 0
      [] l = "info"  -> 1
      [] l = "warn"  -> 2
      [] l = "error" -> 3
      [] l = "panic" -> 4

\* Config.Level strings, valid and not
LevelStrings == {"debug", "info", "warn", "error", "panic", "fatal", ""}

\* NewZapLogger: switch logLevel { ... default: level = zap.InfoLevel }
ParseLevel(str) ==
    IF str \in {"debug", "info", "warn", "error", "panic"} THEN str ELSE "info"

\* levels of the calls Debug, Info, Warn, Error (and their f-variants)
CallLevels == {"debug", "info", "warn", "error"}

\* zapcore.Core: a core writes an entry only if its level is enabled
LevelEnabled(lvl, min) == LevelNum(lvl) >= LevelNum(min)

NoArg == [id |-> 0, lvl |-> "none", a |-> "none", name |-> "none"]
LogArg(n, l) == [id |-> n, lvl |-> l, a |-> "none", name |-> "none"]
AddArg(x) == [id |-> 0, lvl |-> "none", a |-> x, name |-> "none"]
RemoveArg(n) == [id |-> 0, lvl |-> "none", a |-> "none", name |-> n]

\* a dispatch goroutine is identified by its log call and by the position
\* of its adapter in the list at the time of the call
TaskSlots == (1..MaxLogs) \X (1..MaxAdapters)
NoTask == [a |-> "none", st |-> "none"]
Done == [a |-> "none", st |-> "done"]

\* mutant: a Process that returned an error is tried again
TaskAfter_Retry(t, res) == IF res = "err" THEN [t EXCEPT !.st = "spawned"] ELSE Done

\* _ = a.Process(ctx, e): whatever Process returns, the goroutine ends
TaskAfter(t, res) == Done

\* go func(a LogAdapter, e LogEntry) {...}(adapter, entry), one per adapter
Spawned(ts, arg, as) ==
    [k \in TaskSlots |->
        IF k[1] = arg.id /\ k[2] <= Len(as)
          THEN [a |-> as[k[2]], st |-> "spawned"]
          ELSE ts[k]]

RECURSIVE RemoveFirst(_, _), RemoveFirst_All(_, _)
\* mutant: the loop goes on after a match and drops every adapter named n
RemoveFirst_All(as, n) ==
    IF as = <<>> THEN <<>>
    ELSE IF Name(Head(as)) = n THEN RemoveFirst_All(Tail(as), n)
    ELSE <<Head(as)>> \o RemoveFirst_All(Tail(as), n)

\* RemoveAdapter's loop: drop the first adapter whose Name() is n
RemoveFirst(as, n) ==
    IF as = <<>> THEN <<>>
    ELSE IF Name(Head(as)) = n THEN Tail(as)
    ELSE <<Head(as)>> \o RemoveFirst(Tail(as), n)

\* a log method is called: Debug, Info, Warn, Error or an f-variant
LogCall(c, lvls) ==
    /\ c \in LogCallers
    /\ lpc[c] = "idle"
    /\ nextLog <= MaxLogs
    /\ \E l \in lvls : larg' = [larg EXCEPT ![c] = LogArg(nextLog, l)]
    /\ lop' = [lop EXCEPT ![c] = "log"]
    /\ lpc' = [lpc EXCEPT ![c] = "rlock"]
    /\ nextLog' = nextLog + 1
    /\ UNCHANGED <<OtherThanLogger, closeLog, level, adapters, readers, writer, idx, tasks, zapOut>>

\* sendToAdapters: l.adapterMu.RLock()
LogRLock(c) ==
    /\ lpc[c] = "rlock"
    /\ writer = "none"
    /\ readers' = readers \cup {c}
    /\ lpc' = [lpc EXCEPT ![c] = "send"]
    /\ UNCHANGED <<OtherThanLogger, closeLog, level, adapters, writer, lop, larg, idx, tasks, zapOut,
                   nextLog>>

\* sendToAdapters: return if there is no adapter, else build the entry and
\* start one goroutine per adapter
LogSend(c) ==
    /\ lpc[c] = "send"
    /\ tasks' = Spawned(tasks, larg[c], adapters)
    /\ lpc' = [lpc EXCEPT ![c] = "runlock"]
    /\ UNCHANGED <<OtherThanLogger, closeLog, level, adapters, readers, writer, lop, larg, idx, zapOut,
                   nextLog>>

\* sendToAdapters: defer l.adapterMu.RUnlock()
LogRUnlock(c) ==
    /\ lpc[c] = "runlock"
    /\ readers' = readers \ {c}
    /\ lpc' = [lpc EXCEPT ![c] = "zap"]
    /\ UNCHANGED <<OtherThanLogger, closeLog, level, adapters, writer, lop, larg, idx, tasks, zapOut,
                   nextLog>>

\* l.sugar.Info(args...) and the like: the cores write the enabled levels
LogZap(c) ==
    /\ lpc[c] = "zap"
    /\ zapOut' = IF LevelEnabled(larg[c].lvl, level)
                   THEN zapOut \cup {larg[c].id}
                   ELSE zapOut
    /\ lpc' = [lpc EXCEPT ![c] = "return"]
    /\ UNCHANGED <<OtherThanLogger, closeLog, level, adapters, readers, writer, lop, larg, idx, tasks,
                   nextLog>>

\* the log method returns to its caller
LogReturn(c) ==
    /\ lpc[c] = "return"
    /\ lpc' = [lpc EXCEPT ![c] = "idle"]
    /\ lop' = [lop EXCEPT ![c] = "none"]
    /\ larg' = [larg EXCEPT ![c] = NoArg]
    /\ UNCHANGED <<OtherThanLogger, closeLog, level, adapters, readers, writer, idx, tasks, zapOut,
                   nextLog>>

\* the goroutine runs: _ = a.Process(ctx, e) is called
TaskProcess(k) ==
    /\ tasks[k].st = "spawned"
    /\ tasks' = [tasks EXCEPT ![k].st = "processing"]
    /\ UNCHANGED <<OtherThanLogger, closeLog, level, adapters, readers, writer, lpc, lop, larg, idx,
                   zapOut, nextLog>>

\* the 5 seconds of context.WithTimeout pass while a.Process has not
\* returned: ctx is cancelled, the goroutine still waits in a.Process
TaskExpire(k) ==
    /\ tasks[k].st = "processing"
    /\ tasks' = [tasks EXCEPT ![k].st = "overdue"]
    /\ UNCHANGED <<OtherThanLogger, closeLog, level, adapters, readers, writer, lpc, lop, larg, idx,
                   zapOut, nextLog>>

\* a.Process returns nil or an error; the result is discarded and the
\* goroutine ends
TaskReturn(k) ==
    /\ tasks[k].st \in {"processing", "overdue"}
    /\ \E res \in {"nil", "err"} : tasks' = [tasks EXCEPT ![k] = TaskAfter(@, res)]
    /\ UNCHANGED <<OtherThanLogger, closeLog, level, adapters, readers, writer, lpc, lop, larg, idx,
                   zapOut, nextLog>>

\* Close(), AddAdapter(adapter) or RemoveAdapter(name) is called and takes
\* l.adapterMu.Lock(): no reader and no other writer
AdminLock(m) ==
    /\ m \in Admins
    /\ lpc[m] = "idle"
    /\ writer = "none"
    /\ readers = {}
    /\ \/ /\ lop' = [lop EXCEPT ![m] = "close"]
          /\ larg' = [larg EXCEPT ![m] = NoArg]
          /\ lpc' = [lpc EXCEPT ![m] = "close"]
       \/ /\ Len(adapters) < MaxAdapters
          /\ lop' = [lop EXCEPT ![m] = "add"]
          /\ \E a \in AdapterInsts : larg' = [larg EXCEPT ![m] = AddArg(a)]
          /\ lpc' = [lpc EXCEPT ![m] = "add"]
       \/ /\ lop' = [lop EXCEPT ![m] = "remove"]
          /\ \E n \in AdapterNames : larg' = [larg EXCEPT ![m] = RemoveArg(n)]
          /\ lpc' = [lpc EXCEPT ![m] = "remove"]
    /\ writer' = m
    /\ idx' = 1
    /\ UNCHANGED <<OtherThanLogger, closeLog, level, adapters, readers, tasks, zapOut, nextLog>>

\* Close: for _, adapter := range l.adapters { _ = adapter.Flush() ...;
\* after the loop l.adapters = nil
CloseLoop(m) ==
    /\ lpc[m] = "close"
    /\ IF idx <= Len(adapters)
         THEN /\ lpc' = [lpc EXCEPT ![m] = "inFlush"]
              /\ adapters' = adapters
         ELSE /\ lpc' = [lpc EXCEPT ![m] = "wunlock"]
              /\ adapters' = <<>>
    /\ UNCHANGED <<OtherThanLogger, closeLog, level, readers, writer, lop, larg, idx, tasks, zapOut,
                   nextLog>>

\* mutant: Close gives up at the first adapter call that returns an error
CloseGoesOn_UntilError(res) == res = "nil"

\* _ = adapter.Flush(); _ = adapter.Close(): the results are discarded
CloseGoesOn(res) == TRUE

\* adapter.Flush() returns (result discarded); _ = adapter.Close() is called
CloseFlushReturns(m) ==
    /\ lpc[m] = "inFlush"
    /\ \E res \in {"nil", "err"} :
         lpc' = [lpc EXCEPT ![m] = IF CloseGoesOn(res) THEN "inClose" ELSE "wunlock"]
    /\ closeLog' = Append(closeLog, [op |-> "flush", a |-> adapters[idx]])
    /\ UNCHANGED <<OtherThanLogger, level, adapters, readers, writer, lop, larg, idx, tasks,
                   zapOut, nextLog>>

\* adapter.Close() returns (result discarded); next adapter
CloseCloseReturns(m) ==
    /\ lpc[m] = "inClose"
    /\ idx' = idx + 1
    /\ \E res \in {"nil", "err"} :
         lpc' = [lpc EXCEPT ![m] = IF CloseGoesOn(res) THEN "close" ELSE "wunlock"]
    /\ closeLog' = Append(closeLog, [op |-> "close", a |-> adapters[idx]])
    /\ UNCHANGED <<OtherThanLogger, level, adapters, readers, writer, lop, larg, tasks,
                   zapOut, nextLog>>

\* AddAdapter: l.adapters = append(l.adapters, adapter)
AddAdapter(m) ==
    /\ lpc[m] = "add"
    /\ adapters' = Append(adapters, larg[m].a)
    /\ lpc' = [lpc EXCEPT ![m] = "wunlock"]
    /\ UNCHANGED <<OtherThanLogger, closeLog, level, readers, writer, lop, larg, idx, tasks, zapOut,
                   nextLog>>

\* RemoveAdapter: remove the first adapter with that name, if any
RemoveAdapter(m) ==
    /\ lpc[m] = "remove"
    /\ adapters' = RemoveFirst(adapters, larg[m].name)
    /\ lpc' = [lpc EXCEPT ![m] = "wunlock"]
    /\ UNCHANGED <<OtherThanLogger, closeLog, level, readers, writer, lop, larg, idx, tasks, zapOut,
                   nextLog>>

\* defer l.adapterMu.Unlock(); the call returns
AdminUnlock(m) ==
    /\ lpc[m] = "wunlock"
    /\ writer' = "none"
    /\ lpc' = [lpc EXCEPT ![m] = "idle"]
    /\ lop' = [lop EXCEPT ![m] = "none"]
    /\ larg' = [larg EXCEPT ![m] = NoArg]
    /\ closeLog' = <<>>
    /\ UNCHANGED <<OtherThanLogger, level, adapters, readers, idx, tasks, zapOut, nextLog>>

\* NewZapLogger(level, ..., adapterConfigs): the level is parsed from the
\* configuration string, the configured adapters are in the list
LoggerInitFor(strs) ==
    /\ level \in {ParseLevel(str) : str \in strs}
    /\ adapters = <<"k1">>
    /\ readers = {}
    /\ writer = "none"
    /\ lpc = [t \in LThreads |-> "idle"]
    /\ lop = [t \in LThreads |-> "none"]
    /\ larg = [t \in LThreads |-> NoArg]
    /\ idx = 1
    /\ tasks = [k \in TaskSlots |-> NoTask]
    /\ zapOut = {}
    /\ nextLog = 1
    /\ closeLog = <<>>

\* the steps of the logger other than the start of a log call
LoggerSteps ==
    \/ \E c \in LThreads :
         \/ LogRLock(c)
         \/ LogSend(c)
         \/ LogRUnlock(c)
         \/ LogZap(c)
         \/ LogReturn(c)
         \/ AdminLock(c)
         \/ CloseLoop(c)
         \/ CloseFlushReturns(c)
         \/ CloseCloseReturns(c)
         \/ AddAdapter(c)
         \/ RemoveAdapter(c)
         \/ AdminUnlock(c)
    \/ \E k \in TaskSlots :
         \/ TaskProcess(k)
         \/ TaskReturn(k)

\* a logger of the default level whose callers log at that level
LoggerNext ==
    \/ \E c \in LogCallers : LogCall(c, {"info"})
    \/ LoggerSteps

\* a logger of any level whose callers log at every level
LevelsNext ==
    \/ \E c \in LogCallers : LogCall(c, CallLevels)
    \/ \E c \in LogCallers :
         \/ LogRLock(c)
         \/ LogSend(c)
         \/ LogRUnlock(c)
         \/ LogZap(c)
         \/ LogReturn(c)
    \/ \E k \in TaskSlots :
         \/ TaskProcess(k)
         \/ TaskReturn(k)

(***************************************************************************)
(* REGISTRY: RegisterAdapter and GetAdapter.                               *)
(***************************************************************************)
RegNames == {"kafka", "test"}

\* constructors: two that allocate (return &KafkaAdapter{}, return
\* &ElasticsearchAdapter{}) and one that returns an instance it captured
Creators == {"newKafka", "newEs", "sameTest"}
Allocates(cr) == cr # "sameTest"

NoInst == [by |-> "none", n |-> 0]

\* mutant: the instance a constructor made first is kept and handed out again
Create_Cached(cr, n) == [by |-> cr, n |-> 0]

\* creator(): a new instance at each call, or the captured one
Create(cr, n) == IF Allocates(cr) THEN [by |-> cr, n |-> n] ELSE [by |-> cr, n |-> 0]

\* mutant: a name already registered keeps its constructor
Registered_FirstWins(reg, name, cr) ==
    IF reg[name] = "none" THEN [reg EXCEPT ![name] = cr] ELSE reg

\* adapterRegistry[name] = creator
Registered(reg, name, cr) == [reg EXCEPT ![name] = cr]

\* RegisterAdapter(name, creator)
RegisterAdapter(name, cr) ==
    /\ Len(regs) < MaxRegs
    /\ adapterRegistry' = Registered(adapterRegistry, name, cr)
    /\ regs' = Append(regs, [name |-> name, creator |-> cr])
    /\ UNCHANGED <<OtherThanRegistry, nextInst, returned>>

\* GetAdapter(name): (nil, false) if the map has no such key, else
\* (creator(), true)
GetAdapter(name) ==
    /\ Len(returned) < MaxGets
    /\ LET cr == adapterRegistry[name]
       IN  IF cr = "none"
             THEN /\ returned' = Append(returned,
                         [name |-> name, inst |-> NoInst, found |-> FALSE,
                          at |-> Len(regs)])
                  /\ nextInst' = nextInst
             ELSE /\ returned' = Append(returned,
                         [name |-> name, inst |-> Create(cr, nextInst),
                          found |-> TRUE, at |-> Len(regs)])
                  /\ nextInst' = nextInst + 1
    /\ UNCHANGED <<OtherThanRegistry, adapterRegistry, regs>>

\* adapterRegistry = make(map[string]LogAdapterCreator)
RegistryInitState ==
    /\ adapterRegistry = [name \in RegNames |-> "none"]
    /\ nextInst = 1
    /\ regs = <<>>
    /\ returned = <<>>

RegistryNext ==
    \/ \E name \in RegNames, cr \in Creators : RegisterAdapter(name, cr)
    \/ \E name \in RegNames : GetAdapter(name)

(***************************************************************************)
(* FACTORY: NewZapLogger, Init, New, Default and the global log calls.     *)
(***************************************************************************)
Goroutines == {"g1", "g2"}

\* OutputType values; "" is a Config that sets none
OutputTypes == {"file", "terminal", "both", ""}
IsValidOutputType(o) == o \in {"file", "terminal", "both"}
GetDefaultOutputType == "both"

\* what NewDailyRotateWriter meets on the disk
RotOutcomes == {"ok", "mkdir fails", "open fails"}

\* one AdapterConfig, by what the loop meets: a name that is not registered,
\* an adapter whose Init returns nil, an adapter whose Init returns an error
AdapterOutcomes == {"unknown", "ok", "fail"}

Configs ==
    [OutputType : OutputTypes, Path : {"", "logs"}, rot : RotOutcomes,
     Adapters : UNION {[1..n -> AdapterOutcomes] : n \in 0..MaxCfgAdapters}]

\* the interface value nil, and the no-op logger &emptyLogger{}
NilLogger == [tab |-> "nil", data |-> 0]
EmptyLogger == [tab |-> "emptyLogger", data |-> 1]
ZapLoggerAt(n) == [tab |-> "ZapLogger", data |-> n]

\* cores of the logger under construction
Cores(outputType, logPath) ==
    LET c == (IF outputType \in {"terminal", "both"} THEN {"console"} ELSE {})
                 \cup (IF outputType \in {"file", "both"} /\ logPath # ""
                         THEN {"file"} ELSE {})
    IN  IF c = {} THEN {"console"} ELSE c

\* mutant: an error of adapter.Init is passed over
InitReturnsError_Ignored(out) == FALSE

\* err := adapter.Init(cfg.Config); err != nil
InitReturnsError(out) == out = "fail"

\* the adapter init loop: the position where it returns an error, or one
\* past the end
InitFailsAt(adapterConfigs) ==
    LET bad == {i \in 1..Len(adapterConfigs) : InitReturnsError(adapterConfigs[i])}
    IN  IF bad = {} THEN Len(adapterConfigs) + 1
        ELSE CHOOSE i \in bad : \A j \in bad : i <= j

\* what NewZapLogger has acquired when it returns: the file handle opened
\* by NewDailyRotateWriter, and one flushPeriodically goroutine for every
\* adapter whose Init returned nil.  No path of NewZapLogger calls Close on
\* the rotator or on an adapter.
NoneHeld == [handle |-> FALSE, tasks |-> 0]
Acquired(outputType, logPath, rot, adapterConfigs) ==
    IF "file" \in Cores(outputType, logPath) /\ rot # "ok" THEN NoneHeld
    ELSE [handle |-> "file" \in Cores(outputType, logPath),
          tasks |-> Cardinality({i \in 1..(InitFailsAt(adapterConfigs) - 1) :
                                   adapterConfigs[i] = "ok"})]

\* NewZapLogger: the logger (n is the number it gets), the error, and what
\* the call leaves acquired
NewZapLogger(outputType, logPath, rot, adapterConfigs, n) ==
    IF "file" \in Cores(outputType, logPath) /\ rot # "ok"
      THEN [logger |-> NilLogger, err |-> "create log rotator failed",
            adapters |-> <<>>,
            held |-> Acquired(outputType, logPath, rot, adapterConfigs)]
      ELSE IF \E i \in 1..Len(adapterConfigs) : InitReturnsError(adapterConfigs[i])
        THEN [logger |-> NilLogger, err |-> "init adapter failed",
              adapters |-> <<>>,
              held |-> Acquired(outputType, logPath, rot, adapterConfigs)]
        ELSE [logger |-> ZapLoggerAt(n), err |-> "nil",
              adapters |-> SelectSeq(adapterConfigs, LAMBDA o : o # "unknown"),
              held |-> Acquired(outputType, logPath, rot, adapterConfigs)]

\* config.OutputType after Init and New looked at it
Normalised(config) ==
    IF IsValidOutputType(config.OutputType) THEN config.OutputType
    ELSE GetDefaultOutputType

NoLocal == [logger |-> NilLogger, err |-> "nil", adapters |-> <<>>, held |-> NoneHeld]
NoRead == [tab |-> "?", data |-> -1]
NoRet == [op |-> "none", val |-> NilLogger, err |-> "nil"]
NoCfg == [OutputType |-> "none"]

\* configurations with no file output and at most one adapter
PlainConfigs ==
    {c \in Configs : c.OutputType = "terminal" /\ c.Path = "" /\ c.rot = "ok"
                        /\ Len(c.Adapters) <= 1}

FSet(f, t, v) == [f EXCEPT ![t] = v]

\* a goroutine calls Init, Default or a global log function
FactoryCall(t, op) ==
    /\ fpc[t] = "idle"
    /\ fop' = FSet(fop, t, op)
    /\ fpc' = FSet(fpc, t, IF op = "Init" THEN "lock" ELSE "check")
    /\ fread' = FSet(fread, t, NoRead)
    /\ UNCHANGED <<OtherThanFactory, defaultLogger, loggerMu, nextLogger, flocal,
                   fpend, fret, fcfg>>

\* loggerMu.Lock()
FactoryLock(t) ==
    /\ fpc[t] = "lock"
    /\ loggerMu = "none"
    /\ loggerMu' = t
    /\ fpc' = FSet(fpc, t, IF fop[t] = "Init" THEN "construct" ELSE "recheck")
    /\ UNCHANGED <<OtherThanFactory, defaultLogger, nextLogger, fop, flocal, fpend,
                   fread, fret, fcfg>>

\* Init: the output type is normalised and NewZapLogger is called
InitConstruct(t, config) ==
    /\ fpc[t] = "construct"
    /\ nextLogger <= MaxLoggers
    /\ LET res == NewZapLogger(Normalised(config), config.Path, config.rot,
                               config.Adapters, nextLogger)
       IN  /\ flocal' = FSet(flocal, t, res)
           /\ fcfg' = FSet(fcfg, t, config)
           /\ nextLogger' = IF res.err = "nil" THEN nextLogger + 1 ELSE nextLogger
           /\ fpend' = FSet(fpend, t, IF res.err = "nil" THEN {"tab", "data"} ELSE {})
           /\ fpc' = FSet(fpc, t, IF res.err = "nil" THEN "store" ELSE "return")
    /\ UNCHANGED <<OtherThanFactory, defaultLogger, loggerMu, fop, fread, fret>>

\* defaultLogger = logger: the two words of the interface are stored one
\* after the other, in the order the build chose
FactoryStore(t, w) ==
    /\ fpc[t] = "store"
    /\ w \in fpend[t]
    /\ defaultLogger' = [defaultLogger EXCEPT ![w] = flocal[t].logger[w]]
    /\ fpend' = FSet(fpend, t, fpend[t] \ {w})
    /\ fpc' = FSet(fpc, t, IF fpend[t] # {w} THEN "store"
                           ELSE IF fop[t] = "Init" THEN "return" ELSE "unlock")
    /\ UNCHANGED <<OtherThanFactory, loggerMu, nextLogger, fop, flocal, fread, fret,
                   fcfg>>

\* Init returns: the deferred Unlock runs, the error is wrapped
InitReturn(t) ==
    /\ fpc[t] = "return"
    /\ loggerMu' = "none"
    /\ fret' = FSet(fret, t, [op |-> "Init", val |-> NilLogger,
                             err |-> IF flocal[t].err = "nil" THEN "nil"
                                     ELSE "init logger failed"])
    /\ fpc' = FSet(fpc, t, "idle")
    /\ fcfg' = FSet(fcfg, t, NoCfg)
    /\ UNCHANGED <<OtherThanFactory, defaultLogger, nextLogger, fop, flocal, fpend,
                   fread>>

\* New: the output type is normalised and NewZapLogger is called
New(t, config) ==
    /\ fpc[t] = "idle"
    /\ nextLogger <= MaxLoggers
    /\ LET res == NewZapLogger(Normalised(config), config.Path, config.rot,
                               config.Adapters, nextLogger)
       IN  /\ flocal' = FSet(flocal, t, res)
           /\ nextLogger' = IF res.err = "nil" THEN nextLogger + 1 ELSE nextLogger
    /\ fcfg' = FSet(fcfg, t, config)
    /\ fop' = FSet(fop, t, "New")
    /\ fpc' = FSet(fpc, t, "new")
    /\ UNCHANGED <<OtherThanFactory, defaultLogger, loggerMu, fpend, fread, fret>>

\* New returns the results of NewZapLogger
NewReturn(t) ==
    /\ fpc[t] = "new"
    /\ fret' = FSet(fret, t, [op |-> "New", val |-> flocal[t].logger,
                             err |-> flocal[t].err])
    /\ fcfg' = FSet(fcfg, t, NoCfg)
    /\ fpc' = FSet(fpc, t, "idle")
    /\ UNCHANGED <<OtherThanFactory, defaultLogger, loggerMu, nextLogger, fop, flocal,
                   fpend, fread>>

\* Default: if defaultLogger == nil, read without the mutex
DefaultCheck(t) ==
    /\ fpc[t] = "check"
    /\ fpc' = FSet(fpc, t, IF defaultLogger.tab = "nil" THEN "lock" ELSE "load")
    /\ UNCHANGED <<OtherThanFactory, defaultLogger, loggerMu, nextLogger, fop, flocal,
                   fpend, fread, fret, fcfg>>

\* Default: the second look under the mutex, and the construction of the
\* terminal logger, or of the no-op logger if that fails
DefaultRecheck(t) ==
    /\ fpc[t] = "recheck"
    /\ IF defaultLogger.tab = "nil"
         THEN /\ nextLogger <= MaxLoggers
              /\ LET res == NewZapLogger("terminal", "", "ok", <<>>, nextLogger)
                     lg == IF res.err # "nil" THEN EmptyLogger ELSE res.logger
                 IN  /\ flocal' = FSet(flocal, t, [res EXCEPT !.logger = lg])
                     /\ nextLogger' = IF res.err = "nil" THEN nextLogger + 1
                                      ELSE nextLogger
              /\ fpend' = FSet(fpend, t, {"tab", "data"})
              /\ fpc' = FSet(fpc, t, "store")
         ELSE /\ fpc' = FSet(fpc, t, "unlock")
              /\ UNCHANGED <<nextLogger, flocal, fpend>>
    /\ UNCHANGED <<OtherThanFactory, defaultLogger, loggerMu, fop, fread, fret, fcfg>>

\* Default: loggerMu.Unlock()
DefaultUnlock(t) ==
    /\ fpc[t] = "unlock"
    /\ loggerMu' = "none"
    /\ fpc' = FSet(fpc, t, "load")
    /\ UNCHANGED <<OtherThanFactory, defaultLogger, nextLogger, fop, flocal, fpend,
                   fread, fret, fcfg>>

\* Default: return defaultLogger, read without the mutex, one word at a time
DefaultLoad(t, w) ==
    /\ fpc[t] = "load"
    /\ fread[t][w] = NoRead[w]
    /\ LET v == [fread[t] EXCEPT ![w] = defaultLogger[w]]
       IN  /\ fread' = FSet(fread, t, v)
           /\ IF \E u \in {"tab", "data"} : v[u] = NoRead[u]
                THEN UNCHANGED <<fpc, fret>>
                ELSE /\ fret' = FSet(fret, t, [op |-> "Default", val |-> v,
                                              err |-> "nil"])
                     /\ fpc' = FSet(fpc, t, IF fop[t] = "Default" THEN "idle"
                                            ELSE "call")
    /\ UNCHANGED <<OtherThanFactory, defaultLogger, loggerMu, nextLogger, fop, flocal,
                   fpend, fcfg>>

\* Default().Info(args...): the method of the returned value runs; the
\* methods of *ZapLogger read the fields of their receiver
GlobalLogCall(t) ==
    /\ fpc[t] = "call"
    /\ fret' = FSet(fret, t, [fret[t] EXCEPT
                    !.op = "Info",
                    !.err = IF fret[t].val.tab = "nil" \/ fret[t].val.data = 0
                            THEN "panic: nil pointer dereference" ELSE "nil"])
    /\ fpc' = FSet(fpc, t, "idle")
    /\ UNCHANGED <<OtherThanFactory, defaultLogger, loggerMu, nextLogger, fop, flocal,
                   fpend, fread, fcfg>>

\* var defaultLogger Logger; var loggerMu sync.Mutex
FactoryInitState ==
    /\ defaultLogger = NilLogger
    /\ loggerMu = "none"
    /\ nextLogger = 1
    /\ fpc = [t \in Goroutines |-> "idle"]
    /\ fop = [t \in Goroutines |-> "none"]
    /\ flocal = [t \in Goroutines |-> NoLocal]
    /\ fpend = [t \in Goroutines |-> {}]
    /\ fread = [t \in Goroutines |-> NoRead]
    /\ fret = [t \in Goroutines |-> NoRet]
    /\ fcfg = [t \in Goroutines |-> NoCfg]

FactoryNext ==
    \/ \E t \in Goroutines, op \in {"Init", "Default", "Info"} : FactoryCall(t, op)
    \/ \E t \in Goroutines : FactoryLock(t)
    \/ \E t \in Goroutines, config \in PlainConfigs : InitConstruct(t, config)
    \/ \E t \in Goroutines, w \in {"tab", "data"} : FactoryStore(t, w)
    \/ \E t \in Goroutines : InitReturn(t)
    \/ \E t \in Goroutines : DefaultCheck(t)
    \/ \E t \in Goroutines : DefaultRecheck(t)
    \/ \E t \in Goroutines : DefaultUnlock(t)
    \/ \E t \in Goroutines, w \in {"tab", "data"} : DefaultLoad(t, w)
    \/ \E t \in Goroutines : GlobalLogCall(t)

\* one goroutine that constructs loggers, with any configuration
ConstructNext ==
    \/ \E op \in {"Init", "Default", "Info"} : FactoryCall("g1", op)
    \/ FactoryLock("g1")
    \/ \E config \in Configs : InitConstruct("g1", config)
    \/ \E w \in {"tab", "data"} : FactoryStore("g1", w)
    \/ InitReturn("g1")
    \/ \E config \in Configs : New("g1", config)
    \/ NewReturn("g1")
    \/ DefaultCheck("g1")
    \/ DefaultRecheck("g1")
    \/ DefaultUnlock("g1")
    \/ \E w \in {"tab", "data"} : DefaultLoad("g1", w)
    \/ GlobalLogCall("g1")

(***************************************************************************)
(* FIELDS: Init(config) of the Kafka and the Elasticsearch adapter, option *)
(* by option.                                                              *)
(***************************************************************************)
\* a string option: absent, of another type, or a string
Str(v) == [k |-> "string", v |-> v]
StringOptions == {Missing, WrongType, Str("s1")}

\* a list option: absent, of another type, a []string, or a []interface{}
\* whose elements are strings or values of another type
NonString == "<int>"
StringSlice(l) == [k |-> "[]string", v |-> l]
List(l) == [k |-> "[]interface{}", v |-> l]
ListOptions ==
    {Missing, WrongType, StringSlice(<<"h1">>), List(<<>>), List(<<"h1", "h2">>),
     List(<<"h1", NonString>>)}

\* the strings among the elements, in order
RECURSIVE StringsOf(_)
StringsOf(l) ==
    IF l = <<>> THEN <<>>
    ELSE IF Head(l) = NonString THEN StringsOf(Tail(l))
    ELSE <<Head(l)>> \o StringsOf(Tail(l))

\* config["brokers"].([]interface{}) / config["hosts"].([]interface{})
ParseList(k, opt) ==
    IF opt.k = "[]interface{}" THEN StringsOf(opt.v)
    ELSE IF k = "kafka" THEN <<"localhost:9092">> ELSE <<"http://localhost:9200">>

\* config["topic"].(string) / config["index"].(string)
ParseName(k, opt) ==
    IF opt.k = "string" THEN opt.v
    ELSE IF k = "kafka" THEN "logs" ELSE "logs-today"

\* config["username"].(string), config["password"].(string): the field of a
\* new adapter stays empty without it; the Kafka adapter has no such field
ParseCredential(k, opt) ==
    IF k = "elasticsearch" /\ opt.k = "string" THEN opt.v ELSE ""

InitConfigs ==
    [list : ListOptions, name : StringOptions, batch : BatchOptions,
     timeout : TimeoutOptions, username : StringOptions, password : StringOptions]

NoGiven == [kind |-> "none"]
NoFields == [ret |-> "none"]

\* Init(config) on a new adapter of kind k
InitFields(k, config) ==
    /\ given = NoGiven
    /\ given' = [kind |-> k, config |-> config]
    /\ fields' = [list |-> ParseList(k, config.list),
                  name |-> ParseName(k, config.name),
                  username |-> ParseCredential(k, config.username),
                  password |-> ParseCredential(k, config.password),
                  BatchSize |-> ParseBatchSize(k, config.batch),
                  FlushTimeout |-> ParseFlushTimeout(k, config.timeout),
                  ret |-> IF MakeSlicePanics(ParseBatchSize(k, config.batch))
                          THEN "panic" ELSE "nil"]
    /\ UNCHANGED OtherThanFields

\* &KafkaAdapter{} / &ElasticsearchAdapter{}
FieldsInitState ==
    /\ given = NoGiven
    /\ fields = NoFields

FieldsNext == \E k \in AdapterKinds, config \in InitConfigs : InitFields(k, config)

(***************************************************************************)
(* SYSTEM: sendToAdapters, Close, AddAdapter, RemoveAdapter of ZapLogger   *)
(* with Process, Flush, Close and flushPeriodically of its adapters.       *)
(***************************************************************************)
SysCaller == "c1"
SysAdmin == "m1"
SysInsts == {"k1", "e1"}
SysThreads == {SysCaller, SysAdmin}
SysSlots == (1..MaxSysLogs) \X SysInsts

\* BatchSize of the adapters
SysBatch == 2

\* holders of a.bufferMu: nobody, or the dispatch goroutine of a log call
SysFree == 0

SysOps ==
    {[op |-> "close", a |-> "none"]}
        \cup {[op |-> o, a |-> a] : o \in {"add", "remove"}, a \in SysInsts}
SysNoOp == [op |-> "none", a |-> "none"]

SysIn(as, a) == \E i \in 1..Len(as) : as[i] = a

\* mutant: Process calls Flush, which takes a.bufferMu, from under the lock
FlushFromProcess_Locks(holder) == holder = SysFree

\* Process calls flushBuffer, the version that takes no lock
FlushFromProcess(holder) == TRUE

\* a log method is called
SysLogCall ==
    /\ sysPc[SysCaller] = "idle"
    /\ sysNext <= MaxSysLogs
    /\ sysNext' = sysNext + 1
    /\ sysPc' = [sysPc EXCEPT ![SysCaller] = "rlock"]
    /\ UNCHANGED <<OtherThanSystem, sysAdapters, sysMu, sysBufMu, sysBuf, sysOp, sysIdx,
                   sysTasks, sysClosed>>

\* sendToAdapters: l.adapterMu.RLock()
SysRLock ==
    /\ sysPc[SysCaller] = "rlock"
    /\ sysMu.w = "none"
    /\ sysMu' = [sysMu EXCEPT !.r = @ \cup {SysCaller}]
    /\ sysPc' = [sysPc EXCEPT ![SysCaller] = "send"]
    /\ UNCHANGED <<OtherThanSystem, sysAdapters, sysBufMu, sysBuf, sysOp, sysIdx, sysTasks,
                   sysNext, sysClosed>>

\* sendToAdapters: one goroutine per adapter of the list, RUnlock, return
SysSend ==
    /\ sysPc[SysCaller] = "send"
    /\ sysTasks' = [k \in SysSlots |->
                      IF k[1] = sysNext - 1 /\ SysIn(sysAdapters, k[2])
                        THEN "spawned" ELSE sysTasks[k]]
    /\ sysMu' = [sysMu EXCEPT !.r = @ \ {SysCaller}]
    /\ sysPc' = [sysPc EXCEPT ![SysCaller] = "idle"]
    /\ UNCHANGED <<OtherThanSystem, sysAdapters, sysBufMu, sysBuf, sysOp, sysIdx,
                   sysNext, sysClosed>>

\* the goroutine calls a.Process: a.bufferMu.Lock()
SysTaskLock(k) ==
    /\ sysTasks[k] = "spawned"
    /\ sysBufMu[k[2]] = SysFree
    /\ sysBufMu' = [sysBufMu EXCEPT ![k[2]] = k[1]]
    /\ sysTasks' = [sysTasks EXCEPT ![k] = "append"]
    /\ UNCHANGED <<OtherThanSystem, sysAdapters, sysMu, sysBuf, sysPc, sysOp, sysIdx,
                   sysNext, sysClosed>>

\* Process: append; at the threshold flushBuffer; Unlock; the goroutine ends
SysTaskAppend(k) ==
    /\ sysTasks[k] = "append"
    /\ IF ReachedBatch(Len(sysBuf[k[2]]) + 1, SysBatch)
         THEN /\ FlushFromProcess(sysBufMu[k[2]])
              /\ sysBuf' = [sysBuf EXCEPT ![k[2]] = Truncated(Append(@, k[1]))]
         ELSE sysBuf' = [sysBuf EXCEPT ![k[2]] = Append(@, k[1])]
    /\ sysBufMu' = [sysBufMu EXCEPT ![k[2]] = SysFree]
    /\ sysTasks' = [sysTasks EXCEPT ![k] = "done"]
    /\ UNCHANGED <<OtherThanSystem, sysAdapters, sysMu, sysPc, sysOp, sysIdx,
                   sysNext, sysClosed>>

\* flushPeriodically: a tick arrives; Flush: Lock, flushBuffer, Unlock
SysTick(a) ==
    /\ sysBufMu[a] = SysFree
    /\ sysBuf[a] # <<>>
    /\ sysBuf' = [sysBuf EXCEPT ![a] = Truncated(@)]
    /\ UNCHANGED <<OtherThanSystem, sysAdapters, sysMu, sysBufMu, sysPc, sysOp, sysIdx,
                   sysTasks, sysNext, sysClosed>>

\* Close(), AddAdapter(a) or RemoveAdapter(a.Name()) is called
SysAdminCall(op) ==
    /\ sysPc[SysAdmin] = "idle"
    /\ op.op = "add" => (~SysIn(sysAdapters, op.a) /\ ~sysClosed[op.a])
    /\ sysOp' = op
    /\ sysPc' = [sysPc EXCEPT ![SysAdmin] = "wlock"]
    /\ UNCHANGED <<OtherThanSystem, sysAdapters, sysMu, sysBufMu, sysBuf, sysIdx, sysTasks,
                   sysNext, sysClosed>>

\* l.adapterMu.Lock()
SysAdminLock ==
    /\ sysPc[SysAdmin] = "wlock"
    /\ sysMu.w = "none" /\ sysMu.r = {}
    /\ sysMu' = [sysMu EXCEPT !.w = SysAdmin]
    /\ sysIdx' = 1
    /\ sysPc' = [sysPc EXCEPT ![SysAdmin] =
                    IF sysOp.op = "close" /\ sysAdapters # <<>> THEN "flush" ELSE "edit"]
    /\ UNCHANGED <<OtherThanSystem, sysAdapters, sysBufMu, sysBuf, sysOp, sysTasks, sysNext,
                   sysClosed>>

\* Close: adapter.Flush(): Lock, flushBuffer, Unlock
SysCloseFlush ==
    /\ sysPc[SysAdmin] = "flush"
    /\ sysBufMu[sysAdapters[sysIdx]] = SysFree
    /\ sysBuf' = [sysBuf EXCEPT ![sysAdapters[sysIdx]] = Truncated(@)]
    /\ sysPc' = [sysPc EXCEPT ![SysAdmin] = "close"]
    /\ UNCHANGED <<OtherThanSystem, sysAdapters, sysMu, sysBufMu, sysOp, sysIdx, sysTasks,
                   sysNext, sysClosed>>

\* Close: adapter.Close(), which flushes under a.bufferMu; next adapter
SysCloseClose ==
    /\ sysPc[SysAdmin] = "close"
    /\ sysBufMu[sysAdapters[sysIdx]] = SysFree
    /\ sysBuf' = [sysBuf EXCEPT ![sysAdapters[sysIdx]] = Truncated(@)]
    /\ sysIdx' = sysIdx + 1
    /\ sysPc' = [sysPc EXCEPT ![SysAdmin] =
                    IF sysIdx < Len(sysAdapters) THEN "flush" ELSE "edit"]
    /\ UNCHANGED <<OtherThanSystem, sysAdapters, sysMu, sysBufMu, sysOp, sysTasks, sysNext,
                   sysClosed>>

\* Close: l.adapters = nil; AddAdapter: append; RemoveAdapter: drop the
\* adapter of that name; then the deferred l.adapterMu.Unlock() and return
SysEdit ==
    /\ sysPc[SysAdmin] = "edit"
    /\ sysAdapters' = CASE sysOp.op = "close" -> <<>>
                        [] sysOp.op = "add" -> Append(sysAdapters, sysOp.a)
                        [] OTHER -> SelectSeq(sysAdapters, LAMBDA x : x # sysOp.a)
    /\ sysClosed' = [a \in SysInsts |->
                       sysClosed[a] \/ (sysOp.op = "close" /\ SysIn(sysAdapters, a))]
    /\ sysMu' = [sysMu EXCEPT !.w = "none"]
    /\ sysOp' = SysNoOp
    /\ sysPc' = [sysPc EXCEPT ![SysAdmin] = "idle"]
    /\ UNCHANGED <<OtherThanSystem, sysBufMu, sysBuf, sysIdx, sysTasks, sysNext>>

\* a logger constructed with the two adapters, both initialised
SystemInitState ==
    /\ sysAdapters = <<"k1", "e1">>
    /\ sysMu = [r |-> {}, w |-> "none"]
    /\ sysBufMu = [a \in SysInsts |-> SysFree]
    /\ sysBuf = [a \in SysInsts |-> <<>>]
    /\ sysPc = [t \in SysThreads |-> "idle"]
    /\ sysOp = SysNoOp
    /\ sysIdx = 1
    /\ sysTasks = [k \in SysSlots |-> "none"]
    /\ sysNext = 1
    /\ sysClosed = [a \in SysInsts |-> FALSE]

SystemNext ==
    \/ SysLogCall
    \/ SysRLock
    \/ SysSend
    \/ \E k \in SysSlots : SysTaskLock(k)
    \/ \E k \in SysSlots : SysTaskAppend(k)
    \/ \E a \in SysInsts : SysTick(a)
    \/ \E op \in SysOps : SysAdminCall(op)
    \/ SysAdminLock
    \/ SysCloseFlush
    \/ SysCloseClose
    \/ SysEdit

vars == <<avars, svars, lvars, rvars, fvars, cvars, yvars>>

\* Scheduling: a goroutine that can take a step takes it, and a goroutine
\* that waits for a lock gets it once the lock stays free.  The log caller
\* can be overtaken by writers again and again: sync.RWMutex releases the
\* waiting readers at a writer's Unlock before the next writer, hence the
\* strong fairness of RLock.  The steps include flushBuffer: every adapter
\* send terminates.
SystemFairness ==
    /\ SF_vars(SysRLock)
    /\ WF_vars(SysSend)
    /\ WF_vars(SysAdminLock)
    /\ WF_vars(SysCloseFlush)
    /\ WF_vars(SysCloseClose)
    /\ WF_vars(SysEdit)
    /\ \A k \in SysSlots : WF_vars(SysTaskLock(k)) /\ WF_vars(SysTaskAppend(k))

\* DefaultConfig: Level "info"
LoggerInitState == LoggerInitFor({"info"})

Init ==
    /\ AdapterInitState /\ SinkInitState /\ LoggerInitState
    /\ RegistryInitState /\ FactoryInitState /\ FieldsInitState /\ SystemInitState

SpecAdapter == Init /\ [][AdapterNext]_vars

SpecSink == Init /\ [][SinkNext]_vars

SpecLifecycle == Init /\ [][LifecycleNext]_vars

SpecLogger == Init /\ [][LoggerNext]_vars

SpecRegistry == Init /\ [][RegistryNext]_vars

SpecFactory == Init /\ [][FactoryNext]_vars

SpecConstruct == Init /\ [][ConstructNext]_vars

SpecFields == Init /\ [][FieldsNext]_vars

SpecSystem == Init /\ [][SystemNext]_vars

FairSpecSystem == Init /\ [][SystemNext]_vars /\ SystemFairness

\* Scheduling the Go runtime provides: a goroutine that was started runs.
\* Nothing is assumed of the adapters: a Process call need not return.
DispatchFairness == \A k \in TaskSlots : WF_vars(TaskProcess(k))

\* the adapter lists a logger may hold when a log call arrives
AdapterLists ==
    UNION {[1..n -> AdapterInsts] : n \in 0..MaxAdapters}

\* a logger holding any adapter list, its level the default
DispatchInit ==
    /\ AdapterInitState /\ SinkInitState /\ RegistryInitState /\ FactoryInitState
    /\ FieldsInitState /\ SystemInitState
    /\ \E as \in AdapterLists :
         /\ adapters = as
         /\ level = ParseLevel("info")
         /\ readers = {}
         /\ writer = "none"
         /\ lpc = [t \in LThreads |-> "idle"]
         /\ lop = [t \in LThreads |-> "none"]
         /\ larg = [t \in LThreads |-> NoArg]
         /\ idx = 1
         /\ tasks = [k \in TaskSlots |-> NoTask]
         /\ zapOut = {}
         /\ nextLog = 1
         /\ closeLog = <<>>

\* log calls and the tasks they start, the adapter list left as it is
DispatchNext ==
    \/ \E c \in LogCallers :
         \/ LogCall(c, {"info"})
         \/ LogRLock(c)
         \/ LogSend(c)
         \/ LogRUnlock(c)
         \/ LogZap(c)
         \/ LogReturn(c)
    \/ \E k \in TaskSlots :
         \/ TaskProcess(k)
         \/ TaskReturn(k)

FairSpecDispatch == DispatchInit /\ [][DispatchNext]_vars /\ DispatchFairness

\* log calls and their dispatch goroutines, with the passing of the
\* goroutines' timeouts
TimeoutNext ==
    \/ \E c \in LogCallers :
         \/ LogCall(c, {"info"})
         \/ LogRLock(c)
         \/ LogSend(c)
         \/ LogRUnlock(c)
         \/ LogZap(c)
         \/ LogReturn(c)
    \/ \E k \in TaskSlots :
         \/ TaskProcess(k)
         \/ TaskExpire(k)
         \/ TaskReturn(k)

SpecTimeout == DispatchInit /\ [][TimeoutNext]_vars

\* NewZapLogger(config) with config.Level drawn from LevelStrings
LevelsInit ==
    /\ AdapterInitState /\ SinkInitState /\ LoggerInitFor(LevelStrings)
    /\ RegistryInitState /\ FactoryInitState /\ FieldsInitState /\ SystemInitState

SpecLevels == LevelsInit /\ [][LevelsNext]_vars

\* Scheduling the Go runtime provides: every goroutine that can run does run
\* (a call that holds the lock finishes it), the ticker channel keeps
\* delivering ticks, and sync.Mutex hands the lock to a waiter that keeps
\* asking (starvation mode), hence strong fairness of the ticker's Lock.
AdapterFairness ==
    /\ SF_vars(TickLock(Ticker))
    /\ \A t \in AThreads :
         /\ WF_vars(ProcessAppend(t))
         /\ WF_vars(FlushBufferSend(t))
         /\ WF_vars(FlushBufferClear(t))
         /\ WF_vars(Unlock(t))

\* An adapter whose Init has returned with a positive batch size (or the
\* default one) and whose periodic task has started its ticker.
AdapterRunning ==
    /\ aState = "ready"
    /\ BatchSize \in (1..MaxBatch) \cup {KafkaDefaultBatchSize}
    /\ FlushTimeout = KafkaDefaultFlushTimeout
    /\ tickerState = "running"
    /\ ptasks = 1
    /\ buffer = <<>>
    /\ bufferMu = "free"
    /\ apc = [t \in AThreads |-> "idle"]
    /\ aop = [t \in AThreads |-> "none"]
    /\ cur = [t \in AThreads |-> 0]
    /\ ret = [t \in AThreads |-> "none"]
    /\ nextId = 1
    /\ sent = <<>>
    /\ accepted = <<>>
    /\ snap = [t \in AThreads |-> NoSnap]
    /\ flushOps = FALSE

RunningInit ==
    /\ AdapterRunning /\ SinkInitState /\ LoggerInitState
    /\ RegistryInitState /\ FactoryInitState /\ FieldsInitState /\ SystemInitState

FairSpecAdapter == RunningInit /\ [][AdapterRun]_vars /\ AdapterFairness

(***************************************************************************)
(* ADAPTER: properties.                                                    *)
(***************************************************************************)
RECURSIVE Flat(_)
\* the entries of a sequence of batches, in the order they were sent
Flat(s) == IF s = <<>> THEN <<>> ELSE Head(s).entries \o Flat(Tail(s))

Range(s) == {s[i] : i \in 1..Len(s)}

Batch(es, who) == [entries |-> es, by |-> who]

FlushKinds == {"flush", "tick", "close"}

\* t is about to return from its call (all of the call's work is done)
Returning(t, op) == apc[t] = "unlock" /\ aop[t] = op

\* C3: with batch size B >= 1, an empty buffer at Init and no Flush, Close or
\* periodic tick: once exactly B entries have been fed and the calls have
\* returned, exactly one batch was sent, by the Process call of the B-th entry,
\* holding the B entries, and the buffer is empty; once exactly B-1 entries
\* have been fed, no batch was sent and the buffer holds all B-1 entries.
C3_ThresholdFlush ==
    (bufferMu = "free" /\ ~flushOps /\ BatchSize >= 1) =>
        /\ (Len(accepted) = BatchSize) =>
              (sent = <<Batch(accepted, "process")>> /\ buffer = <<>>)
        /\ (Len(accepted) = BatchSize - 1) =>
              (sent = <<>> /\ buffer = accepted)

C3_Witness ==
    /\ bufferMu = "free" /\ ~flushOps
    /\ BatchSize >= 2 /\ Len(accepted) = BatchSize
    /\ Len(sent) = 1 /\ buffer = <<>>

\* C4 (state part): the batch-size-3 scenario, step by step.  With 2 entries
\* submitted and no flush of any kind the destination holds 0 batches; the
\* periodic flush that finds those 2 entries sends exactly 1 batch holding
\* them; each of the next Process calls below the threshold sends nothing,
\* and the Process call of the third further entry sends one more batch of 3
\* itself, before it returns.
C4_ScenarioSteps ==
    LET b12 == Batch(<<1, 2>>, "tick") IN
    BatchSize = 3 =>
        /\ (accepted = <<1, 2>> /\ ~flushOps) =>
              (sent = <<>> /\ (bufferMu = "free" => buffer = <<1, 2>>))
        /\ (Returning(Ticker, "tick") /\ snap[Ticker] = [buf |-> <<1, 2>>, nsent |-> 0])
              => (sent = <<b12>> /\ buffer = <<>>)
        /\ \A t \in Producers :
              (Returning(t, "process") /\ snap[t].nsent = 1 /\ sent[1] = b12) =>
                 /\ snap[t].buf \in {<<>>, <<3>>} =>
                       (sent = <<b12>> /\ buffer = Append(snap[t].buf, cur[t]))
                 /\ snap[t].buf = <<3, 4>> =>
                       (sent = <<b12, Batch(<<3, 4, 5>>, "process")>> /\ buffer = <<>>)

\* C4: the scenario steps hold in every state and, with the periodic task
\* running and scheduled fairly, every entry left in the buffer is eventually
\* sent to the destination.
C4_PeriodicFlush ==
    /\ []C4_ScenarioSteps
    /\ \A e \in 1..MaxEntries :
         (tickerState = "running" /\ e \in Range(buffer)) ~> (e \in Range(Flat(sent)))

C4_Witness ==
    /\ BatchSize = 3
    /\ sent = <<Batch(<<1, 2>>, "tick"), Batch(<<3, 4, 5>>, "process")>>
    /\ buffer = <<>>
    /\ bufferMu = "free"

\* C5: a flush (Flush, the periodic flush, or the flush of Close) that finds
\* a non-empty buffer returns nil having sent that whole buffer as one batch,
\* in the order Process appended the entries, and leaves the buffer empty.
C5_FlushDrainsInOrder ==
    \A t \in AThreads :
        (apc[t] = "unlock" /\ aop[t] \in FlushKinds /\ snap[t].buf # <<>>) =>
            /\ ret[t] = "nil"
            /\ buffer = <<>>
            /\ Len(sent) = snap[t].nsent + 1
            /\ sent[Len(sent)].entries = snap[t].buf
            /\ Len(accepted) >= Len(snap[t].buf)
            /\ snap[t].buf = SubSeq(accepted, Len(accepted) - Len(snap[t].buf) + 1,
                                    Len(accepted))

C5_Witness ==
    /\ Returning(Caller, "flush")
    /\ Len(snap[Caller].buf) >= 2
    /\ buffer = <<>>

\* C6: no empty batch is ever sent to the destination, and a flush that finds
\* the buffer empty (the loser of a race, or the second of two Flush calls in
\* succession) returns nil and changes neither the buffer nor the destination.
C6_EmptyFlushNoOp ==
    /\ \A i \in 1..Len(sent) : sent[i].entries # <<>>
    /\ \A t \in AThreads :
          (apc[t] = "unlock" /\ aop[t] \in FlushKinds /\ snap[t].buf = <<>>) =>
              (ret[t] = "nil" /\ buffer = <<>> /\ Len(sent) = snap[t].nsent)

C6_Witness ==
    /\ Returning(Caller, "flush")
    /\ snap[Caller].buf = <<>>
    /\ Len(sent) >= 1
    /\ sent[Len(sent)].by = "flush"

\* C7: whenever no flush is between its send and its clear, the entries
\* appended by Process so far are exactly the entries sent in batches followed
\* by the entries in the buffer, each once and in append order; and while
\* fewer than batch-size entries were fed and no flush ran, the buffer holds
\* all of them.
C7_NoLossNoDuplicate ==
    /\ (\A t \in AThreads : apc[t] # "clear") => (Flat(sent) \o buffer = accepted)
    /\ (~flushOps /\ Len(accepted) < BatchSize) => (buffer = accepted)

C7_Witness ==
    /\ Len(sent) >= 2
    /\ Len(buffer) >= 1
    /\ apc["p1"] = "unlock" /\ aop["p1"] = "process"
    /\ cur["p2"] = 0 /\ \E i \in 1..Len(accepted) : accepted[i] # cur["p1"]

\* C8: when Close returns, every entry appended by Process so far has been
\* sent, the buffer is empty, and Close returns the result of its flush.
C8_CloseFlushes ==
    \A t \in AThreads :
        Returning(t, "close") =>
            (buffer = <<>> /\ Flat(sent) = accepted /\ ret[t] = "nil")

C8_Witness ==
    /\ Returning(Caller, "close")
    /\ snap[Caller].buf # <<>>
    /\ Len(sent) >= 2

\* C9: Init never panics and leaves the adapter and its periodic flush task
\* working, whatever the configuration map holds.
C9_InitNeverFails ==
    aState # "panicked" /\ tickerState # "panicked"

(***************************************************************************)
(* SINK: properties.                                                       *)
(***************************************************************************)
\* the (file, offset) positions that hold a payload
Positions(files) ==
    UNION {{<<p, i>> : i \in 1..Len(files[p])} : p \in DOMAIN files}

\* the dates the sink has touched: the date of construction and every date
\* on which a Write was performed
Touched == {1} \cup {i \in 1..Len(Calendar) : expected[i] # <<>>}

\* C1: with no I/O failure, no Close, and every date change falling between
\* Write calls, whenever no call is in progress there is exactly one file per
\* distinct date touched, the file of a date holds exactly the payloads
\* written while that date was current, in order, and the payloads in all
\* the files are the payloads requested, each exactly once.
C1_OneFilePerDate ==
    (clean /\ mutex = "free") =>
        /\ DOMAIN fs = {LogFileName(Calendar[i]) : i \in Touched}
        /\ Cardinality(DOMAIN fs) = Cardinality(Touched)
        /\ \A i \in Touched : fs[LogFileName(Calendar[i])] = expected[i]
        /\ Cardinality(Positions(fs)) = nextPayload - 1
        /\ \A b \in 1..(nextPayload - 1) :
              Cardinality({q \in Positions(fs) : fs[q[1]][q[2]] = b}) = 1

C1_Witness ==
    /\ clean /\ mutex = "free"
    /\ nextPayload - 1 >= 3
    /\ Len(expected[1]) >= 2
    /\ expected[4] # <<>>
    /\ Cardinality(DOMAIN fs) = 2

(***************************************************************************)
(* LOGGER: properties.                                                     *)
(***************************************************************************)
\* C2: a log call never waits for an adapter: no log call is held at
\* l.adapterMu.RLock() by a Close that holds the lock while one of the
\* adapters' Flush or Close has not returned.
C2_LogCallNeverWaits ==
    \A c \in LogCallers :
        lpc[c] = "rlock" =>
            ~(writer # "none" /\ lpc[writer] \in {"inFlush", "inClose"})

\* C10: only log calls at or above the configured level are output: a call
\* below it starts no adapter task and writes nothing through the cores.
C10_OnlyEnabledLevels ==
    \A c \in LogCallers :
        /\ (lpc[c] = "runlock" /\ \E k \in TaskSlots :
                                    k[1] = larg[c].id /\ tasks[k].st # "none")
              => LevelEnabled(larg[c].lvl, level)
        /\ (lpc[c] = "return" /\ larg[c].id \in zapOut)
              => LevelEnabled(larg[c].lvl, level)

\* C11 (dispatch step): the dispatch of a log call starts exactly one task
\* per adapter of the list as it is at that moment, for the adapter at that
\* position, and touches no task of another call.
C11_OneTaskPerAdapter ==
    \A c \in LogCallers :
        (lpc[c] = "send" /\ lpc'[c] = "runlock") =>
            \A k \in TaskSlots :
                tasks'[k] = IF k[1] # larg[c].id THEN tasks[k]
                            ELSE IF k[2] <= Len(adapters)
                              THEN [a |-> adapters[k[2]], st |-> "spawned"]
                              ELSE NoTask

\* C11 (task steps): a task is started only by the dispatch of its own call,
\* invokes Process only once and on its adapter, and is never started or
\* run again after Process was invoked.
C11_ProcessOnce ==
    \A k \in TaskSlots :
        /\ (tasks'[k].st = "spawned" /\ tasks[k].st # "spawned") =>
              /\ tasks[k].st = "none"
              /\ \E c \in LogCallers : lpc[c] = "send" /\ larg[c].id = k[1]
        /\ (tasks'[k].st = "processing" /\ tasks[k].st # "processing") =>
              (tasks[k].st = "spawned" /\ tasks'[k].a = tasks[k].a)
        /\ tasks[k].st = "processing" => tasks'[k].st \in {"processing", "done"}
        /\ tasks[k].st = "done" => tasks'[k].st = "done"

\* C11: every log call starts exactly one task per adapter of the list at
\* the time of the call; each task invokes Process exactly once; and with
\* the goroutines scheduled fairly every started task does invoke Process,
\* whether or not the Process calls of the other tasks ever return (again
\* and again no started task is left that has not invoked Process).
C11_EachAdapterOnce ==
    /\ [][C11_OneTaskPerAdapter /\ C11_ProcessOnce]_vars
    /\ []<>(\A k \in TaskSlots : tasks[k].st # "spawned")

C11_Witness ==
    /\ Len(adapters) = 2
    /\ tasks[<<1, 1>>] = [a |-> adapters[1], st |-> "processing"]
    /\ tasks[<<1, 2>>].st = "done"
    /\ tasks[<<2, 1>>].st = "done"
    /\ tasks[<<2, 2>>] = [a |-> adapters[2], st |-> "processing"]

\* positions of the adapters of a list whose Name() is n
Matches(as, n) == {i \in 1..Len(as) : Name(as[i]) = n}

CloseCalls(as, n) ==
    [i \in 1..(2 * n) |->
        [op |-> IF i % 2 = 1 THEN "flush" ELSE "close", a |-> as[(i + 1) \div 2]]]

\* C15 (loop): while Close runs, the adapter calls that have returned are
\* Flush then Close on each adapter before the one the loop is at, in list
\* order, once each, plus the Flush of that adapter once it has returned.
C15_CloseLoopCalls ==
    \A m \in Admins :
        /\ (lop[m] = "close" /\ lpc[m] \in {"close", "inFlush"}) =>
              closeLog = CloseCalls(adapters, idx - 1)
        /\ (lop[m] = "close" /\ lpc[m] = "inClose") =>
              closeLog = Append(CloseCalls(adapters, idx - 1),
                                [op |-> "flush", a |-> adapters[idx]])
        /\ (lop[m] = "close" /\ lpc[m] = "wunlock") => adapters = <<>>

\* C15: Close calls Flush and then Close once each on every adapter of the
\* list, in order, whatever the calls return; it leaves its loop only after
\* the last adapter and then clears the list; a log call that finds the list
\* empty starts no task.
C15_CloseFlushesThenCloses ==
    /\ []C15_CloseLoopCalls
    /\ [][ /\ \A m \in Admins :
                 (lop[m] = "close" /\ lpc[m] # "wunlock" /\ lpc'[m] = "wunlock") =>
                     /\ closeLog = CloseCalls(adapters, Len(adapters))
                     /\ adapters' = <<>>
            /\ \A c \in LogCallers :
                 (lpc[c] = "send" /\ lpc'[c] = "runlock" /\ adapters = <<>>) =>
                     tasks' = tasks
          ]_vars

C15_Witness ==
    /\ lop["m1"] = "close" /\ lpc["m1"] = "wunlock"
    /\ closeLog = CloseCalls(<<"k1", "e1">>, 2)
    /\ adapters = <<>>

\* C16: a Write that finds the sink without a handle opens the file of the
\* current date again before it appends: no Write reaches its append with
\* the handle missing.
C16_WriteReopens ==
    \A t \in Writers : spc[t] = "append" => ~file.nil

\* C19 as stated: a day's file exists only if a Write was executed on that
\* day.
C19_NoFileWithoutWrite ==
    \A i \in 1..Len(Calendar) :
        LogFileName(Calendar[i]) \in DOMAIN fs => i \in wdays

\* C19 amended: the file of the day of construction is created by
\* NewDailyRotateWriter; the file of any other day exists only if a Write was
\* executed on that day, and no file exists for a day yet to come.
C19_LazyAfterConstruction ==
    \A i \in 1..Len(Calendar) :
        LogFileName(Calendar[i]) \in DOMAIN fs =>
            /\ i <= clock
            /\ i = 1 \/ i \in wdays

C19_Witness ==
    /\ clock >= 3
    /\ LogFileName(Calendar[3]) \in DOMAIN fs
    /\ LogFileName(Calendar[2]) \notin DOMAIN fs
    /\ 1 \notin wdays
    /\ \E t \in Writers : sop[t] = "sync"

(***************************************************************************)
(* REGISTRY: properties.                                                   *)
(***************************************************************************)
\* the RegisterAdapter calls under a name among the first n calls
RegsOf(name, n) == {j \in 1..n : regs[j].name = name}

\* C12: each GetAdapter(name) reports found exactly when name was registered
\* by an earlier RegisterAdapter call, the instance then comes from the
\* constructor of the latest such call, and (nil, false) is returned for a
\* name never registered; the map holds every name ever registered.
C12_LastWriteWins ==
    /\ \A i \in 1..Len(returned) :
          LET r == returned[i]
              R == RegsOf(r.name, r.at)
          IN  /\ r.found <=> R # {}
              /\ r.found =>
                    r.inst.by = regs[CHOOSE j \in R : \A h \in R : h <= j].creator
              /\ ~r.found => r.inst = NoInst
    /\ \A name \in RegNames :
          adapterRegistry[name] # "none" <=> RegsOf(name, Len(regs)) # {}

C12_Witness ==
    /\ Len(regs) = 2 /\ regs[1].name = regs[2].name /\ regs[1].creator # regs[2].creator
    /\ Len(returned) = 2
    /\ returned[1].found /\ returned[1].at = 1
    /\ returned[2].found /\ returned[2].at = 2 /\ returned[2].name = regs[1].name

\* C13 as stated: no two GetAdapter calls return the same instance.
C13_AlwaysFresh ==
    \A i, j \in 1..Len(returned) :
        (i # j /\ returned[i].found /\ returned[j].found) =>
            returned[i].inst # returned[j].inst

\* C13 amended: GetAdapter returns what one call of the registered
\* constructor returns; two GetAdapter calls return the same instance only
\* when both went to a constructor that hands out an instance it captured,
\* and never when the constructor allocates, as the built-in ones do.
C13_FreshIfConstructorAllocates ==
    \A i, j \in 1..Len(returned) :
        (i # j /\ returned[i].found /\ returned[j].found
              /\ returned[i].inst = returned[j].inst) =>
            (returned[i].inst.by = returned[j].inst.by /\ ~Allocates(returned[i].inst.by))

C13_Witness ==
    /\ Len(returned) = 2
    /\ returned[1].name = returned[2].name
    /\ returned[1].inst.by = "newKafka" /\ returned[2].inst.by = "newKafka"
    /\ returned[1].inst # returned[2].inst

(***************************************************************************)
(* FACTORY: properties.                                                    *)
(***************************************************************************)
\* the rotating file sink of a configuration cannot be created
RotatorFails(config) ==
    /\ Normalised(config) \in {"file", "both"} /\ config.Path # ""
    /\ config.rot # "ok"

\* the Init of some configured adapter returns an error
SomeInitFails(config) ==
    \E i \in 1..Len(config.Adapters) : config.Adapters[i] = "fail"

\* what a goroutine holds after NewZapLogger returned to Init or New
C17_NilLoggerAndError ==
    \A t \in Goroutines :
        fcfg[t] # NoCfg =>
          /\ (RotatorFails(fcfg[t]) \/ SomeInitFails(fcfg[t])) =>
                (flocal[t].logger = NilLogger /\ flocal[t].err # "nil")
          /\ flocal[t].logger = NilLogger <=> flocal[t].err # "nil"

\* what Init and New return to their caller
C17_Returned ==
    \A t \in Goroutines :
        (fcfg[t] # NoCfg /\ fcfg'[t] = NoCfg) =>
          /\ fop[t] = "New" =>
                (fret'[t].val = flocal[t].logger /\ fret'[t].err = flocal[t].err)
          /\ fop[t] = "Init" =>
                /\ fret'[t].err # "nil" <=> flocal[t].err # "nil"
                /\ flocal[t].err # "nil" => defaultLogger' = defaultLogger

C18_DefaultNeverNil ==
    \A t \in Goroutines :
        fret[t].op \in {"Default", "Info"} =>
            (fret[t].val.tab # "nil" /\ fret[t].val.data # 0)

(***************************************************************************)
(* FIELDS: properties.                                                     *)
(***************************************************************************)
\* a float64 option is taken exactly: the field holds its value
TakenExactly(opt, field) == 2 * field = opt.halves

\* C20: after Init every option present with the expected type is in its
\* field exactly (the strings of a string list, the string, the number of
\* the float64), and every option that is missing or of another type has
\* left the default in its field, whatever the other options are.
C20_FieldByField ==
    given # NoGiven =>
      LET k == given.kind
          c == given.config
      IN  /\ fields.list =
                IF c.list.k \in {"[]interface{}", "[]string"} /\ NonString \notin Range(c.list.v)
                  THEN c.list.v
                  ELSE IF k = "kafka" THEN <<"localhost:9092">>
                       ELSE <<"http://localhost:9200">>
          /\ fields.name =
                IF c.name.k = "string" THEN c.name.v
                ELSE IF k = "kafka" THEN "logs" ELSE "logs-today"
          /\ IF c.batch.k = "float" THEN TakenExactly(c.batch, fields.BatchSize)
             ELSE fields.BatchSize =
                    IF k = "kafka" THEN KafkaDefaultBatchSize ELSE EsDefaultBulkSize
          /\ IF c.timeout.k = "float" THEN TakenExactly(c.timeout, fields.FlushTimeout)
             ELSE fields.FlushTimeout =
                    IF k = "kafka" THEN KafkaDefaultFlushTimeout
                    ELSE EsDefaultFlushInterval

(***************************************************************************)
(* SINK: the critical section and the rotation state.                      *)
(***************************************************************************)
\* a caller is between w.mutex.Lock() and the deferred Unlock
Inside(t) == spc[t] # "idle"

\* at most one caller is inside, and it is the holder of the mutex
C21_OneInside ==
    \A t \in Writers :
        Inside(t) =>
          /\ mutex = t
          /\ \A u \in Writers \ {t} : ~Inside(u)
          /\ spc[t] = "open" => \A u \in Writers \ {t} : spc[u] # "append"

\* while a Write is between its date check and its append, no step of
\* another caller happens and the sink changes by the steps of that Write
C21_NoForeignStep ==
    \A t \in Writers :
        (sop[t] = "write" /\ Inside(t)) =>
          /\ \A u \in Writers \ {t} : spc'[u] = spc[u]
          /\ <<file, fs, dirs, currentDate>> # <<file', fs', dirs', currentDate'>>
                => spc'[t] # spc[t]

\* C21: date check, rotation (close of the old handle, directory, open,
\* binding of handle and date) and append of a Write are one critical
\* section under the sink's mutex: no append, sync or close of another
\* caller runs between the first and the last step of a Write, and no
\* append runs between the close of the old handle and the binding of the
\* new one.
C21_WriteIsOneCriticalSection == []C21_OneInside /\ [][C21_NoForeignStep]_vars

C21_Witness ==
    /\ spc["w1"] = "open" /\ sop["w1"] = "write" /\ file.nil
    /\ payload["w1"] = 2 /\ Len(expected[1]) = 1
    /\ spc["w2"] = "idle"

C23_FailedCloseDiscardsHandle == file.nil \/ file.open

(***************************************************************************)
(* ADAPTER: the periodic flush task and the buffer bound.                  *)
(***************************************************************************)
\* C24: an initialised adapter has exactly one periodic flush task,
\* however many times Init was called on it.
C24_OnePeriodicTask == (aState = "ready") => ptasks = 1

\* C27: for a batch size B >= 1, whenever the buffer lock is free the
\* buffer holds at most B - 1 entries; it holds B entries only inside the
\* Process call that flushes it.
C27_BufferBelowBatch ==
    (aState = "ready" /\ BatchSize >= 1) =>
      /\ bufferMu = "free" => Len(buffer) <= BatchSize - 1
      /\ Len(buffer) <= BatchSize
      /\ Len(buffer) = BatchSize =>
            \E t \in Producers : bufferMu = t /\ apc[t] \in {"flush", "clear"}

C27_Witness ==
    /\ aState = "ready" /\ BatchSize = 3
    /\ bufferMu = "free" /\ Len(buffer) = 2
    /\ \E i \in 1..Len(sent) : sent[i].by = "process" /\ Len(sent[i].entries) = 3

\* C30: once Close has sent its batch, the periodic task sends no batch.
C30_NoPeriodicFlushAfterClose ==
    \A i, j \in 1..Len(sent) :
        (i < j /\ sent[i].by = "close") => sent[j].by # "tick"

(***************************************************************************)
(* LOGGER: the timeout of a dispatch goroutine.                            *)
(***************************************************************************)
\* C25: no dispatch goroutine is alive, waiting for Process to return,
\* after its timeout has expired.
C25_NoTaskPastTimeout == \A k \in TaskSlots : tasks[k].st # "overdue"

\* C26: the two lock levels are taken in one order only (a holder of a
\* bufferMu waits for no lock, so adapterMu is always taken first) and no
\* holder of a bufferMu takes it again; with terminating sends every started
\* log call, admin call and dispatch task completes.
C26_BufferMuIsInnermost ==
    \A a \in SysInsts :
        sysBufMu[a] # SysFree => sysTasks[<<sysBufMu[a], a>>] = "append"

C26_EveryOperationCompletes ==
    /\ \A t \in SysThreads : []<>(sysPc[t] = "idle")
    /\ \A k \in SysSlots : []<>(sysTasks[k] \in {"none", "done"})

C26_NoDeadlock == []C26_BufferMuIsInnermost /\ C26_EveryOperationCompletes

\* Close, holding adapterMu, waits for the bufferMu that a dispatch task
\* holds at the batch threshold
C26_Witness ==
    /\ sysPc[SysAdmin] \in {"flush", "close"}
    /\ sysMu.w = SysAdmin
    /\ sysBufMu[sysAdapters[sysIdx]] # SysFree
    /\ Len(sysBuf[sysAdapters[sysIdx]]) + 1 = SysBatch

\* C28: an adapter gets the entry of a caller's first log call before the
\* entry of the caller's second log call.
C28_AppendedInCallOrder ==
    \A a \in SysInsts : \A n \in 2..MaxSysLogs :
        sysTasks[<<n, a>>] \in {"append", "done"} =>
            \A m \in 1..(n - 1) : sysTasks[<<m, a>>] \in {"none", "done"}

\* C29: after a ZapLogger.Close that closed an adapter has returned, no
\* dispatch task is inside Process of that adapter and nothing waits in the
\* adapter's buffer.
C29_NoProcessAfterClose ==
    \A a \in SysInsts :
        sysClosed[a] =>
            /\ sysBuf[a] = <<>>
            /\ \A n \in 1..MaxSysLogs : sysTasks[<<n, a>>] # "append"

====
